---- MODULE Spec2Model ----
(***************************************************************************)
(* Model of the bibx BibTeX pipeline: scan.Reader -> scan.Scanner ->       *)
(* parse.Parser -> consumer.  Text is a sequence of one-character strings. *)
(***************************************************************************)
EXTENDS Integers, Sequences, FiniteSets, TLC

VARIABLES
    src,        \* the constructs the input text was rendered from (never changes)
    input,      \* the character stream behind scan.Reader
    pos,        \* Reader: number of characters consumed so far
    unread,     \* Reader: whether a rune can be unread, and the Revert calls so far
    sstate,     \* Scanner.state
    bracers,    \* Scanner.bracers
    entryT,     \* Scanner.entryT
    delim,      \* Scanner.delim
    items,      \* Scanner.items (buffered channel)
    pstate,     \* Parser.state
    ppc,        \* position inside the running parser handler
    comments,   \* Parser.comments (values of the pending CommentGroupExpr)
    heap,       \* the CommentGroupExpr objects allocated so far, by address
    currDecl,   \* Parser.currDecl
    stmt,       \* the FieldStmt local of Parser.entry / Parser.abbrev
    nodes,      \* Parser.nodes (buffered channel)
    closed,     \* number of times Parser.nodes has been closed
    ctl,        \* whose code runs: "idle", "pnext" (Parser.Next), "snext" (Scanner.Next)
    toks,       \* history: the Items returned by Scanner.Next
    results,    \* history: the (Node, bool) pairs returned by Parser.Next
    other       \* a second pipeline over the same input, while the consumer is not driving it

vars == <<src, input, pos, unread, sstate, bracers, entryT, delim, items, pstate, ppc,
          comments, heap, currDecl, stmt, nodes, closed, ctl, toks, results, other>>

scanVars == <<pos, unread, sstate, bracers, entryT, delim, items>>
parseVars == <<pstate, ppc, comments, heap, currDecl, stmt, nodes, closed, results>>

----------------------------------------------------------------------------
(* Bounds of the model.                                                     *)

MaxDecls == 2        \* constructs in one input
MaxFields == 2       \* fields in one generic entry
MaxExtraCalls == 2   \* Next calls the consumer keeps making after termination
MaxItems == 4        \* body items in one script of the scripted Scannable

----------------------------------------------------------------------------
(* Characters.                                                              *)

LowerCase == <<"a","b","c","d","e","f","g","h","i","j","k","l","m",
               "n","o","p","q","r","s","t","u","v","w","x","y","z">>
UpperCase == <<"A","B","C","D","E","F","G","H","I","J","K","L","M",
               "N","O","P","Q","R","S","T","U","V","W","X","Y","Z">>
Digits == {"0","1","2","3","4","5","6","7","8","9"}
Spaces == {" ", "\n", "\t"}
IOERR == "<read error>"   \* a position at which the underlying io.Reader fails
BACKTICK == "<backtick>"  \* the grave accent, which a string literal cannot hold

Range(s) == {s[i] : i \in DOMAIN s}

IsLetterRune(r) == r \in Range(LowerCase) \cup Range(UpperCase)
IsDigitRune(r) == r \in Digits
IsSpaceRune(r) == r \in Spaces

ToLowerRune(r) ==
    IF \E i \in DOMAIN UpperCase : UpperCase[i] = r
    THEN LowerCase[CHOOSE i \in DOMAIN UpperCase : UpperCase[i] = r]
    ELSE r

ToLower(s) == [i \in DOMAIN s |-> ToLowerRune(s[i])]

RECURSIVE TrimLeft(_)
TrimLeft(s) ==
    IF s # <<>> /\ IsSpaceRune(Head(s)) THEN TrimLeft(Tail(s)) ELSE s

RECURSIVE TrimRight(_)
TrimRight(s) ==
    IF s # <<>> /\ IsSpaceRune(s[Len(s)])
    THEN TrimRight(SubSeq(s, 1, Len(s) - 1)) ELSE s

\* A trim that leaves the white space at the end.
TrimSpaceLeading(s) == TrimLeft(s)

TrimSpace(s) == TrimRight(TrimLeft(s))

----------------------------------------------------------------------------
(* scan: character classes and validators.                                  *)

IsSpecial(r) ==
    r \in {"_","-","/","!","?","$","&","*","+",".",":",";","<",">","[","]","^",BACKTICK,"|"}

IsValidNameRune(r) == ~(~IsLetterRune(r) /\ ~IsDigitRune(r) /\ ~IsSpecial(r))

\* A check that takes any text for a NAME.
IsValidNameAny(s) == TRUE

IsValidName(s) == s # <<>> /\ \A i \in DOMAIN s : IsValidNameRune(s[i])

isDelim(r) == r \in {"{", "}", "(", ")"}

\* A digit test that leaves out the test for the empty string.
isValidIntEmpty(s) == \A i \in DOMAIN s : IsDigitRune(s[i])

isValidInt(s) == s # <<>> /\ \A i \in DOMAIN s : IsDigitRune(s[i])

RECURSIVE properQuotedLoop(_, _, _, _)
properQuotedLoop(chars, i, braces, quotes) ==
    IF i > Len(chars)
    THEN ~(braces # 0 \/ quotes % 2 # 0)
    ELSE LET c == chars[i] IN
         CASE c = "\\" -> properQuotedLoop(chars, i + 2, braces, quotes)
           [] c = "{" -> properQuotedLoop(chars, i + 1, braces + 1, quotes)
           [] c = "}" /\ braces > 0 -> properQuotedLoop(chars, i + 1, braces - 1, quotes)
           [] c = "\"" -> properQuotedLoop(chars, i + 1, braces, quotes + 1)
           [] OTHER -> properQuotedLoop(chars, i + 1, braces, quotes)

\* A check that accepts any non-empty text.
isProperQuotedAny(s) == s # <<>>

isProperQuoted(s) == s # <<>> /\ properQuotedLoop(s, 1, 0, 0)

\* A table that pairs each opener with the closer of the other flavour.
delimsCrossed(r) ==
    CASE r = "{" -> ")"
      [] r = ")" -> "{"
      [] r = "(" -> "}"
      [] r = "}" -> "("
      [] OTHER -> ""

delims(r) ==
    CASE r = "{" -> "}"
      [] r = "}" -> "{"
      [] r = "(" -> ")"
      [] r = ")" -> "("
      [] OTHER -> ""

\* A check that accepts any closing delimiter.
delimsMatchAny(i, j) == isDelim(i)

delimsMatch(i, j) == isDelim(i) /\ j = delims(i)

----------------------------------------------------------------------------
(* scan.Reader.                                                             *)

charErr == "charErr"
charEOF == "charEOF"
charOk == "charOk"

\* A Reader: at is the number of characters consumed, last tells whether the
\* buffer still holds the rune read last (so that it can be unread), done
\* and failed count the Revert calls that did and did not unread a rune.
NewReader == [at |-> 0, last |-> FALSE, done |-> 0, failed |-> 0]

\* Reader.Next on reader p: the character read and the reader after it.
\* Only a read that returns a rune leaves a rune to unread.
ReaderNext(p) ==
    IF p.at >= Len(input) THEN [t |-> charEOF, val |-> "", pos |-> [p EXCEPT !.last = FALSE]]
    ELSE IF input[p.at + 1] = IOERR
    THEN [t |-> charErr, val |-> "", pos |-> [p EXCEPT !.last = FALSE]]
    ELSE [t |-> charOk, val |-> input[p.at + 1], pos |-> [p EXCEPT !.at = @ + 1, !.last = TRUE]]

\* Reader.Revert: unread the single rune read last.  When there is none the
\* call fails and leaves the reader where it is; the scanner drops the error.
ReaderRevert(p) ==
    IF p.last THEN [p EXCEPT !.at = @ - 1, !.last = FALSE, !.done = @ + 1]
    ELSE [p EXCEPT !.failed = @ + 1]

----------------------------------------------------------------------------
(* scan.Scanner: states, items, handlers.  A handler is the value it       *)
(* leaves behind: next state, reader position, scanner fields and the      *)
(* items it sent.                                                           *)

\* The capacity of the items channel of NewScanner and of the nodes channel
\* of NewParser: make(chan Item, 2), make(chan Node, 2).
ChanCap == 2

ScanStates == {"null", "entryDelim", "topLvlComment", "entryComment", "entryType",
               "entryLeftBodyDelim", "entryCiteKey", "entryComma", "entryFieldType",
               "entryRightBodyDelim", "entryEqSgn", "entryFieldText",
               "entryTypeOrBrace", "eof", "err"}

Item(t, v) == [T |-> t, Val |-> v]

\* A check that takes the end of input for a read failure.
checkErrCharStrict(c) ==
    IF c.t = charErr \/ c.t = charEOF THEN "err" ELSE "null"

checkErrChar(c) ==
    IF c.t = charErr THEN "err" ELSE IF c.t = charEOF THEN "eof" ELSE "null"

\* What a handler leaves behind.
Ret(st, p, out, br, et, dl) ==
    [state |-> st, pos |-> p, out |-> out, bracers |-> br, entryT |-> et, delim |-> dl]

\* A scanner that sends the text it has buffered when the input ends.
RECURSIVE topLvlCommentLoopFlush(_, _)
topLvlCommentLoopFlush(p, buf) ==
    LET char == ReaderNext(p) IN
    IF checkErrChar(char) # "null"
    THEN Ret(checkErrChar(char), char.pos,
             IF TrimSpace(buf) # <<>> THEN <<Item("ItemComment", TrimSpace(buf))>> ELSE <<>>,
             bracers, entryT, delim)
    ELSE IF char.val = "@"
    THEN Ret("entryDelim", ReaderRevert(char.pos),
             IF TrimSpace(buf) # <<>> THEN <<Item("ItemComment", TrimSpace(buf))>> ELSE <<>>,
             bracers, entryT, delim)
    ELSE topLvlCommentLoopFlush(char.pos, buf \o <<char.val>>)

\* A scanner that sends the text left at the end of the input as a comment.
RECURSIVE topLvlCommentLoopAtEnd(_, _)
topLvlCommentLoopAtEnd(p, buf) ==
    LET char == ReaderNext(p) IN
    IF checkErrChar(char) = "err"
    THEN Ret("err", char.pos, <<>>, bracers, entryT, delim)
    ELSE IF char.t = charEOF \/ char.val = "@"
    THEN Ret(IF char.t = charEOF THEN "eof" ELSE "entryDelim",
             IF char.t = charEOF THEN char.pos ELSE ReaderRevert(char.pos),
             IF TrimSpace(buf) # <<>> THEN <<Item("ItemComment", TrimSpace(buf))>> ELSE <<>>,
             bracers, entryT, delim)
    ELSE topLvlCommentLoopAtEnd(char.pos, buf \o <<char.val>>)

RECURSIVE topLvlCommentLoop(_, _)
topLvlCommentLoop(p, buf) ==
    LET char == ReaderNext(p) IN
    IF checkErrChar(char) # "null"
    THEN Ret(checkErrChar(char), char.pos, <<>>, bracers, entryT, delim)
    ELSE IF char.val = "@"
    THEN Ret("entryDelim", ReaderRevert(char.pos),
             IF TrimSpace(buf) # <<>> THEN <<Item("ItemComment", TrimSpace(buf))>> ELSE <<>>,
             bracers, entryT, delim)
    ELSE topLvlCommentLoop(char.pos, buf \o <<char.val>>)

\* A handler that sends the delimiter item twice.
RECURSIVE entryDelimLoopTwice(_)
entryDelimLoopTwice(p) ==
    LET char == ReaderNext(p) IN
    IF checkErrChar(char) # "null"
    THEN Ret(checkErrChar(char), char.pos, <<>>, bracers, entryT, delim)
    ELSE IF char.val = "@"
    THEN Ret("entryType", char.pos,
             <<Item("ItemEntryDelim", <<char.val>>), Item("ItemEntryDelim", <<char.val>>)>>,
             bracers, entryT, delim)
    ELSE entryDelimLoopTwice(char.pos)

RECURSIVE entryDelimLoop(_)
entryDelimLoop(p) ==
    LET char == ReaderNext(p) IN
    IF checkErrChar(char) # "null"
    THEN Ret(checkErrChar(char), char.pos, <<>>, bracers, entryT, delim)
    ELSE IF char.val = "@"
    THEN Ret("entryType", char.pos, <<Item("ItemEntryDelim", <<char.val>>)>>,
             bracers, entryT, delim)
    ELSE entryDelimLoop(char.pos)

\* A keyword decision that knows the keywords in lower case only.
entryKindExact(buf) ==
    LET lower == buf IN
    IF lower = <<"p","r","e","a","m","b","l","e">> THEN [entryT |-> "preamble", t |-> "ItemPreamble"]
    ELSE IF lower = <<"s","t","r","i","n","g">> THEN [entryT |-> "abbrev", t |-> "ItemAbbrev"]
    ELSE [entryT |-> "entry", t |-> "ItemEntry"]

\* The keyword decision of Scanner.entryType on the trimmed buffer.
entryKind(buf) ==
    LET lower == ToLower(buf) IN
    IF lower = <<"p","r","e","a","m","b","l","e">> THEN [entryT |-> "preamble", t |-> "ItemPreamble"]
    ELSE IF lower = <<"s","t","r","i","n","g">> THEN [entryT |-> "abbrev", t |-> "ItemAbbrev"]
    ELSE [entryT |-> "entry", t |-> "ItemEntry"]

RECURSIVE entryTypeLoop(_, _)
entryTypeLoop(p, buf) ==
    LET char == ReaderNext(p) IN
    IF checkErrChar(char) # "null"
    THEN Ret(checkErrChar(char), char.pos, <<>>, bracers, entryT, delim)
    ELSE IF char.val \in {"{", "("}
    THEN LET b == TrimSpace(buf)
             k == entryKind(b)
         IN IF ~IsValidName(b)
            THEN Ret("err", char.pos, <<>>, bracers, k.entryT, delim)
            ELSE Ret("entryLeftBodyDelim", ReaderRevert(char.pos), <<Item(k.t, b)>>,
                     bracers, k.entryT, delim)
    ELSE entryTypeLoop(char.pos, buf \o <<char.val>>)

\* The dispatch of Scanner.leftBodyDelim on the declaration kind.
afterLeftDelim(et) ==
    CASE et = "entry" -> "entryCiteKey"
      [] et = "preamble" -> "entryFieldText"
      [] et = "abbrev" -> "entryFieldType"

\* A scanner that does not count the opening delimiter.
RECURSIVE leftBodyDelimLoopFlat(_)
leftBodyDelimLoopFlat(p) ==
    LET char == ReaderNext(p) IN
    IF checkErrChar(char) # "null"
    THEN Ret(checkErrChar(char), char.pos, <<>>, bracers, entryT, delim)
    ELSE IF char.val \in {"{", "("}
    THEN Ret(afterLeftDelim(entryT), char.pos, <<Item("ItemLeftDelim", <<char.val>>)>>,
             bracers, entryT, char.val)
    ELSE leftBodyDelimLoopFlat(char.pos)

RECURSIVE leftBodyDelimLoop(_)
leftBodyDelimLoop(p) ==
    LET char == ReaderNext(p) IN
    IF checkErrChar(char) # "null"
    THEN Ret(checkErrChar(char), char.pos, <<>>, bracers, entryT, delim)
    ELSE IF char.val \in {"{", "("}
    THEN Ret(afterLeftDelim(entryT), char.pos, <<Item("ItemLeftDelim", <<char.val>>)>>,
             bracers + 1, entryT, char.val)
    ELSE leftBodyDelimLoop(char.pos)

RECURSIVE rightBodyDelimLoop(_)
rightBodyDelimLoop(p) ==
    LET char == ReaderNext(p) IN
    IF checkErrChar(char) # "null"
    THEN Ret(checkErrChar(char), char.pos, <<>>, bracers, entryT, delim)
    ELSE IF char.val \in {"}", ")"}
    THEN IF ~delimsMatch(delim, char.val)
         THEN Ret("err", char.pos, <<>>, bracers, entryT, delim)
         ELSE Ret("null", char.pos, <<Item("ItemRightDelim", <<char.val>>)>>,
                  bracers - 1, entryT, delim)
    ELSE rightBodyDelimLoop(char.pos)

\* A handler that does not push the comma back.
RECURSIVE citeKeyLoopNoRevert(_, _)
citeKeyLoopNoRevert(p, buf) ==
    LET char == ReaderNext(p) IN
    IF checkErrChar(char) # "null"
    THEN Ret(checkErrChar(char), char.pos, <<>>, bracers, entryT, delim)
    ELSE IF char.val = ","
    THEN IF ~IsValidName(TrimSpace(buf))
         THEN Ret("err", char.pos, <<>>, bracers, entryT, delim)
         ELSE Ret("entryComma", char.pos,
                  <<Item("ItemCiteKey", TrimSpace(buf))>>, bracers, entryT, delim)
    ELSE citeKeyLoopNoRevert(char.pos, buf \o <<char.val>>)

\* A handler that sends the cite key without checking it.
RECURSIVE citeKeyLoopUnchecked(_, _)
citeKeyLoopUnchecked(p, buf) ==
    LET char == ReaderNext(p) IN
    IF checkErrChar(char) # "null"
    THEN Ret(checkErrChar(char), char.pos, <<>>, bracers, entryT, delim)
    ELSE IF char.val = ","
    THEN Ret("entryComma", ReaderRevert(char.pos),
             <<Item("ItemCiteKey", TrimSpace(buf))>>, bracers, entryT, delim)
    ELSE citeKeyLoopUnchecked(char.pos, buf \o <<char.val>>)

RECURSIVE citeKeyLoop(_, _)
citeKeyLoop(p, buf) ==
    LET char == ReaderNext(p) IN
    IF checkErrChar(char) # "null"
    THEN Ret(checkErrChar(char), char.pos, <<>>, bracers, entryT, delim)
    ELSE IF char.val = ","
    THEN IF ~IsValidName(TrimSpace(buf))
         THEN Ret("err", char.pos, <<>>, bracers, entryT, delim)
         ELSE Ret("entryComma", ReaderRevert(char.pos),
                  <<Item("ItemCiteKey", TrimSpace(buf))>>, bracers, entryT, delim)
    ELSE citeKeyLoop(char.pos, buf \o <<char.val>>)

RECURSIVE entryCommaLoop(_)
entryCommaLoop(p) ==
    LET char == ReaderNext(p) IN
    IF checkErrChar(char) # "null"
    THEN Ret(checkErrChar(char), char.pos, <<>>, bracers, entryT, delim)
    ELSE IF char.val = ","
    THEN Ret("entryTypeOrBrace", char.pos, <<Item("ItemComma", <<char.val>>)>>,
             bracers, entryT, delim)
    ELSE entryCommaLoop(char.pos)

\* Second loop of Scanner.entryComment (label cont): out is what the first
\* loop sent.
\* A second loop that does not look for a further comment line.
RECURSIVE entryCommentContOnce(_, _)
entryCommentContOnce(p, out) ==
    LET char == ReaderNext(p) IN
    IF checkErrChar(char) # "null"
    THEN Ret(checkErrChar(char), char.pos, out, bracers, entryT, delim)
    ELSE CASE isDelim(char.val) ->
                Ret("entryRightBodyDelim", ReaderRevert(char.pos), out, bracers, entryT, delim)
           [] ~isDelim(char.val) /\ IsValidNameRune(char.val) ->
                Ret("entryFieldType", ReaderRevert(char.pos), out, bracers, entryT, delim)
           [] OTHER -> entryCommentContOnce(char.pos, out)

RECURSIVE entryCommentCont(_, _)
entryCommentCont(p, out) ==
    LET char == ReaderNext(p) IN
    IF checkErrChar(char) # "null"
    THEN Ret(checkErrChar(char), char.pos, out, bracers, entryT, delim)
    ELSE CASE char.val = "%" -> Ret("entryComment", char.pos, out, bracers, entryT, delim)
           [] char.val # "%" /\ isDelim(char.val) ->
                Ret("entryRightBodyDelim", ReaderRevert(char.pos), out, bracers, entryT, delim)
           [] char.val # "%" /\ ~isDelim(char.val) /\ IsValidNameRune(char.val) ->
                Ret("entryFieldType", ReaderRevert(char.pos), out, bracers, entryT, delim)
           [] OTHER -> entryCommentCont(char.pos, out)

RECURSIVE entryCommentLoop(_, _)
entryCommentLoop(p, buf) ==
    LET char == ReaderNext(p) IN
    IF checkErrChar(char) # "null"
    THEN Ret(checkErrChar(char), char.pos, <<>>, bracers, entryT, delim)
    ELSE IF char.val = "\n"
    THEN entryCommentCont(char.pos,
             IF TrimSpace(buf) # <<>> THEN <<Item("ItemComment", TrimSpace(buf))>> ELSE <<>>)
    ELSE entryCommentLoop(char.pos, buf \o <<char.val>>)

\* A handler whose deferred Revert also runs when the read did not succeed.
RECURSIVE entryTypeOrBraceLoopDeferAll(_)
entryTypeOrBraceLoopDeferAll(p) ==
    LET char == ReaderNext(p)
        c == char.val
    IN
    IF checkErrChar(char) # "null"
    THEN Ret(checkErrChar(char), ReaderRevert(char.pos), <<>>, bracers, entryT, delim)
    ELSE CASE c = "}" \/ c = ")" ->
                Ret("entryRightBodyDelim", ReaderRevert(char.pos), <<>>, bracers, entryT, delim)
           [] c = "%" -> Ret("entryComment", char.pos, <<>>, bracers, entryT, delim)
           [] c \notin {"}", ")", "%"} /\ IsValidNameRune(c) ->
                Ret("entryFieldType", ReaderRevert(char.pos), <<>>, bracers, entryT, delim)
           [] OTHER -> entryTypeOrBraceLoopDeferAll(char.pos)

\* A handler that pushes the first character of a field name back and names itself again.
RECURSIVE entryTypeOrBraceLoopStay(_)
entryTypeOrBraceLoopStay(p) ==
    LET char == ReaderNext(p)
        c == char.val
    IN
    IF checkErrChar(char) # "null"
    THEN Ret(checkErrChar(char), char.pos, <<>>, bracers, entryT, delim)
    ELSE CASE c = "}" \/ c = ")" ->
                Ret("entryRightBodyDelim", ReaderRevert(char.pos), <<>>, bracers, entryT, delim)
           [] c = "%" -> Ret("entryComment", char.pos, <<>>, bracers, entryT, delim)
           [] c \notin {"}", ")", "%"} /\ IsValidNameRune(c) ->
                Ret("entryTypeOrBrace", ReaderRevert(char.pos), <<>>, bracers, entryT, delim)
           [] OTHER -> entryTypeOrBraceLoopStay(char.pos)

RECURSIVE entryTypeOrBraceLoop(_)
entryTypeOrBraceLoop(p) ==
    LET char == ReaderNext(p)
        c == char.val
    IN
    IF checkErrChar(char) # "null"
    THEN Ret(checkErrChar(char), char.pos, <<>>, bracers, entryT, delim)
    ELSE CASE c = "}" \/ c = ")" ->
                Ret("entryRightBodyDelim", ReaderRevert(char.pos), <<>>, bracers, entryT, delim)
           [] c = "%" -> Ret("entryComment", char.pos, <<>>, bracers, entryT, delim)
           [] c \notin {"}", ")", "%"} /\ IsValidNameRune(c) ->
                Ret("entryFieldType", ReaderRevert(char.pos), <<>>, bracers, entryT, delim)
           [] OTHER -> entryTypeOrBraceLoop(char.pos)

RECURSIVE entryFieldTypeLoop(_, _)
entryFieldTypeLoop(p, buf) ==
    LET char == ReaderNext(p) IN
    IF checkErrChar(char) # "null"
    THEN Ret(checkErrChar(char), char.pos, <<>>, bracers, entryT, delim)
    ELSE IF char.val = "="
    THEN IF ~IsValidName(TrimSpace(buf))
         THEN Ret("err", char.pos, <<>>, bracers, entryT, delim)
         ELSE Ret("entryEqSgn", ReaderRevert(char.pos),
                  <<Item("ItemFieldType", TrimSpace(buf))>>, bracers, entryT, delim)
    ELSE entryFieldTypeLoop(char.pos, buf \o <<char.val>>)

RECURSIVE entryEqSgnLoop(_)
entryEqSgnLoop(p) ==
    LET char == ReaderNext(p) IN
    IF checkErrChar(char) # "null"
    THEN Ret(checkErrChar(char), char.pos, <<>>, bracers, entryT, delim)
    ELSE IF char.val = "="
    THEN Ret("entryFieldText", char.pos, <<Item("ItemEqSgn", <<char.val>>)>>,
             bracers, entryT, delim)
    ELSE entryEqSgnLoop(char.pos)

\* A scanner that sends the field text without its first and last character.
fieldTextEndStrip(buf, p, br, st, rev) ==
    LET b == TrimSpace(buf) IN
    IF ~isValidInt(b) /\ ~isProperQuoted(b)
    THEN Ret("err", p, <<>>, br, entryT, delim)
    ELSE Ret(st, IF rev THEN ReaderRevert(p) ELSE p,
             <<Item("ItemFieldText", SubSeq(b, 2, Len(b) - 1))>>, br, entryT, delim)

\* The three terminating cases of Scanner.entryFieldText: validate the
\* trimmed buffer, send it, go to state st (reverting the reader if rev).
fieldTextEnd(buf, p, br, st, rev) ==
    LET b == TrimSpace(buf) IN
    IF ~isValidInt(b) /\ ~isProperQuoted(b)
    THEN Ret("err", p, <<>>, br, entryT, delim)
    ELSE Ret(st, IF rev THEN ReaderRevert(p) ELSE p, <<Item("ItemFieldText", b)>>,
             br, entryT, delim)

\* Which characters end the field text when the brace counter is 1.
closesFieldText(c) == c = "}" \/ c = ")"

\* A counter that counts every double quote, escaped or not.
countsQuoteAlways(prev) == TRUE

\* Whether a double quote with this predecessor is counted.
countsQuote(prev) == prev # "\\"

\* A handler that ends the value at a comma at any brace depth.
RECURSIVE entryFieldTextLoopShallow(_, _, _, _, _)
entryFieldTextLoopShallow(p, buf, quotes, prev, br) ==
    LET char == ReaderNext(p)
        c == char.val
    IN
    IF checkErrChar(char) # "null"
    THEN Ret(checkErrChar(char), char.pos, <<>>, br, entryT, delim)
    ELSE CASE c = "{" -> entryFieldTextLoopShallow(char.pos, buf \o <<c>>, quotes, c, br + 1)
           [] c = "\"" ->
                entryFieldTextLoopShallow(char.pos, buf \o <<c>>,
                                          IF countsQuote(prev) THEN quotes + 1 ELSE quotes, c, br)
           [] c \notin {"{", "\""} /\ closesFieldText(c) /\ br = 1 ->
                fieldTextEnd(buf, char.pos, br, "entryRightBodyDelim", TRUE)
           [] c = "%" /\ br = 1 ->
                fieldTextEnd(buf, char.pos, br, "entryComment", FALSE)
           [] c = "}" /\ ~(closesFieldText(c) /\ br = 1) /\ br > 0 ->
                entryFieldTextLoopShallow(char.pos, buf \o <<c>>, quotes, c, br - 1)
           [] c = "," /\ quotes % 2 = 0 ->
                fieldTextEnd(buf, char.pos, br, "entryComma", TRUE)
           [] OTHER -> entryFieldTextLoopShallow(char.pos, buf \o <<c>>, quotes, c, br)

RECURSIVE entryFieldTextLoop(_, _, _, _, _)
entryFieldTextLoop(p, buf, quotes, prev, br) ==
    LET char == ReaderNext(p)
        c == char.val
    IN
    IF checkErrChar(char) # "null"
    THEN Ret(checkErrChar(char), char.pos, <<>>, br, entryT, delim)
    ELSE CASE c = "{" -> entryFieldTextLoop(char.pos, buf \o <<c>>, quotes, c, br + 1)
           [] c = "\"" ->
                entryFieldTextLoop(char.pos, buf \o <<c>>,
                                   IF countsQuote(prev) THEN quotes + 1 ELSE quotes, c, br)
           [] c \notin {"{", "\""} /\ closesFieldText(c) /\ br = 1 ->
                fieldTextEnd(buf, char.pos, br, "entryRightBodyDelim", TRUE)
           [] c = "%" /\ br = 1 ->
                fieldTextEnd(buf, char.pos, br, "entryComment", FALSE)
           [] c = "}" /\ ~(closesFieldText(c) /\ br = 1) /\ br > 0 ->
                entryFieldTextLoop(char.pos, buf \o <<c>>, quotes, c, br - 1)
           [] c = "," /\ quotes % 2 = 0 /\ br = 1 ->
                fieldTextEnd(buf, char.pos, br, "entryComma", TRUE)
           [] OTHER -> entryFieldTextLoop(char.pos, buf \o <<c>>, quotes, c, br)

\* s.reader as the handlers find it.
ThisReader == [at |-> pos, last |-> unread.last, done |-> unread.done, failed |-> unread.failed]

\* Scanner.eof: the continuous end-of-file state.
eofHandler == Ret("eof", ThisReader, <<Item("ItemEOF", <<>>)>>, bracers, entryT, delim)

\* A scanner that leaves the error state after reporting it once.
errHandlerResume == Ret("null", ThisReader, <<Item("ItemErr", <<>>)>>, bracers, entryT, delim)

\* Scanner.err: the continuous error state.
errHandler == Ret("err", ThisReader, <<Item("ItemErr", <<>>)>>, bracers, entryT, delim)

\* The handler table of NewScanner: the outcome of running the handler of
\* state st on the current scanner.
RunHandler(st) ==
    CASE st = "null" -> Ret("topLvlComment", ThisReader, <<>>, bracers, entryT, delim)
      [] st = "topLvlComment" -> topLvlCommentLoop(ThisReader, <<>>)
      [] st = "entryDelim" -> entryDelimLoop(ThisReader)
      [] st = "entryType" -> entryTypeLoop(ThisReader, <<>>)
      [] st = "entryLeftBodyDelim" -> leftBodyDelimLoop(ThisReader)
      [] st = "entryRightBodyDelim" -> rightBodyDelimLoop(ThisReader)
      [] st = "entryCiteKey" -> citeKeyLoop(ThisReader, <<>>)
      [] st = "entryComma" -> entryCommaLoop(ThisReader)
      [] st = "entryComment" -> entryCommentLoop(ThisReader, <<>>)
      [] st = "entryTypeOrBrace" -> entryTypeOrBraceLoop(ThisReader)
      [] st = "entryFieldType" -> entryFieldTypeLoop(ThisReader, <<>>)
      [] st = "entryEqSgn" -> entryEqSgnLoop(ThisReader)
      [] st = "entryFieldText" -> entryFieldTextLoop(ThisReader, <<>>, 0, "", bracers)
      [] st = "eof" -> eofHandler
      [] st = "err" -> errHandler

\* The default branch of Scanner.Next: the items channel is empty, so the
\* handler of the current state runs and its result becomes the state.
ScanStep(st) ==
    /\ ctl = "snext"
    /\ items = <<>>
    /\ sstate = st
    /\ LET r == RunHandler(st) IN
        /\ sstate' = r.state
        /\ pos' = r.pos.at
        /\ unread' = [last |-> r.pos.last, done |-> r.pos.done, failed |-> r.pos.failed]
        /\ bracers' = r.bracers
        /\ entryT' = r.entryT
        /\ delim' = r.delim
        /\ items' = items \o r.out
    /\ UNCHANGED <<src, input, other, ctl, toks, parseVars>>

ScannerNull == ScanStep("null")
ScannerTopLvlComment == ScanStep("topLvlComment")
ScannerEntryDelim == ScanStep("entryDelim")
ScannerEntryType == ScanStep("entryType")
ScannerLeftBodyDelim == ScanStep("entryLeftBodyDelim")
ScannerRightBodyDelim == ScanStep("entryRightBodyDelim")
ScannerCiteKey == ScanStep("entryCiteKey")
ScannerEntryComma == ScanStep("entryComma")
ScannerEntryComment == ScanStep("entryComment")
ScannerEntryTypeOrBrace == ScanStep("entryTypeOrBrace")
ScannerEntryFieldType == ScanStep("entryFieldType")
ScannerEntryEqSgn == ScanStep("entryEqSgn")
ScannerEntryFieldText == ScanStep("entryFieldText")
ScannerEof == ScanStep("eof")
ScannerErr == ScanStep("err")

ScannerStep ==
    \/ ScannerNull \/ ScannerTopLvlComment \/ ScannerEntryDelim \/ ScannerEntryType \/ ScannerLeftBodyDelim
    \/ ScannerRightBodyDelim \/ ScannerCiteKey \/ ScannerEntryComma \/ ScannerEntryComment
    \/ ScannerEntryTypeOrBrace \/ ScannerEntryFieldType \/ ScannerEntryEqSgn \/ ScannerEntryFieldText
    \/ ScannerEof \/ ScannerErr

----------------------------------------------------------------------------
(* parse: nodes.                                                            *)

NilNode == [type |-> "nil"]
EntryDecl(name, key, comms, fields) ==
    [type |-> "EntryDecl", Name |-> name, CiteKey |-> key, Comments |-> comms,
     Fields |-> fields]
\* Field is a pointer: <<>> is nil, <<f>> points to f.
AbbrevDecl(comms, field) == [type |-> "AbbrevDecl", Comments |-> comms, Field |-> field]
PreambleDecl(comms, value) == [type |-> "PreambleDecl", Comments |-> comms, Value |-> value]
FieldStmt(k, v) == [Key |-> k, Value |-> v]

\* FieldStmt.ok
StmtOk(f) == ~(f.Key = <<>> \/ f.Value = <<>>)

checkErr(t) ==
    IF t = "ItemErr" THEN "err" ELSE IF t = "ItemEOF" THEN "eof" ELSE "null"

\* The heap of comment groups: mem[a] holds the values of the group at
\* address a, cur is the address in p.comments, given lists the addresses
\* assigned to the Comments field of a declaration, in the order assigned.
NewHeap == [cur |-> 1, mem |-> <<<<>>>>, given |-> <<>>]

\* The values of the group p.comments points to.
pending(h) == h.mem[h.cur]

\* decl.Comments = p.comments
handOver(h) == [h EXCEPT !.given = Append(@, h.cur)]

\* A reset that leaves p.comments pointing to the group it pointed to.
resetCommsKeep(h) == h

\* Parser.resetComms: p.comments = new(CommentGroupExpr)
resetComms(h) == [h EXCEPT !.cur = Len(h.mem) + 1, !.mem = Append(@, <<>>)]

\* A comment group whose newest comment comes first.
appendCommentFront(cs, v) == <<v>> \o cs

\* p.comments.Values = append(p.comments.Values, &v)
appendComment(cs, v) == Append(cs, v)

\* The same append, on the group p.comments points to.
appendToGroup(h, v) == [h EXCEPT !.mem[h.cur] = appendComment(@, v)]

\* A parser that keeps the entry type as scanned.
declNameAsScanned(val) == val

\* The name Parser.decl gives the EntryDecl it seeds from an Entry item.
declName(val) == ToLower(val)

\* A receive that is ready only when a node is buffered.
recvReadyBuffered(ns, cl) == ns # <<>>

\* Whether the receive case of the select in Parser.Next can proceed: a
\* buffered node is waiting, or the channel is closed.
recvReady(ns, cl) == ns # <<>> \/ cl > 0

----------------------------------------------------------------------------
(* parse.Parser.Next and the consumer.                                      *)

Terminals == {r \in Range(results) : ~r.ok}
NumTerminal == Cardinality({i \in DOMAIN results : ~results[i].ok})

\* The consumer calls Parser.Next.
ParserNextCall ==
    /\ ctl = "idle"
    /\ NumTerminal < MaxExtraCalls
    /\ ctl' = "pnext"
    /\ UNCHANGED <<src, input, other, scanVars, parseVars, toks>>

\* Parser.Next, receive case: n, ok := <-p.nodes.
ParserNextReturn ==
    /\ ctl = "pnext"
    /\ recvReady(nodes, closed)
    /\ IF nodes # <<>>
       THEN /\ results' = Append(results, [node |-> Head(nodes), ok |-> TRUE])
            /\ nodes' = Tail(nodes)
       ELSE /\ results' = Append(results, [node |-> NilNode, ok |-> FALSE])
            /\ nodes' = nodes
    /\ ctl' = "idle"
    /\ UNCHANGED <<src, input, other, scanVars, pstate, ppc, comments, heap, currDecl, stmt, closed, toks>>

\* Parser.Next, default case, for a handler of state st: the handler starts.
Dispatch(st) ==
    /\ ctl = "pnext"
    /\ ~recvReady(nodes, closed)
    /\ pstate = st
    /\ ppc = "none"

\* A handler returns state st to Parser.Next.
Return(st) ==
    /\ pstate' = st
    /\ ppc' = "none"
    /\ ctl' = "pnext"

\* A handler calls p.scanner.Next() and will resume at pc.
CallScanner(pc) ==
    /\ ctl' = "snext"
    /\ ppc' = pc

\* p.scanner.Next() returns the buffered item to the handler of state st.
Recv(st) ==
    /\ ctl = "snext"
    /\ pstate = st
    /\ items # <<>>
    /\ items' = Tail(items)
    /\ toks' = Append(toks, Head(items))
    /\ UNCHANGED <<src, input, other, pos, unread, sstate, bracers, entryT, delim>>

ParserNull ==
    /\ Dispatch("null")
    /\ Return("comms")
    /\ UNCHANGED <<src, input, other, scanVars, comments, heap, currDecl, stmt, nodes, closed, toks, results>>

ParserErr ==
    /\ Dispatch("err")
    /\ closed' = closed + 1
    /\ Return("err")
    /\ UNCHANGED <<src, input, other, scanVars, comments, heap, currDecl, stmt, nodes, toks, results>>

ParserEof ==
    /\ Dispatch("eof")
    /\ closed' = closed + 1
    /\ Return("eof")
    /\ UNCHANGED <<src, input, other, scanVars, comments, heap, currDecl, stmt, nodes, toks, results>>

ParserCommsBegin ==
    /\ Dispatch("comms")
    /\ CallScanner("loop")
    /\ UNCHANGED <<src, input, other, scanVars, pstate, comments, heap, currDecl, stmt, nodes, closed,
                   toks, results>>

ParserCommsRecv ==
    /\ Recv("comms")
    /\ LET i == Head(items) IN
       IF checkErr(i.T) # "null"
       THEN /\ Return(checkErr(i.T))
            /\ UNCHANGED <<comments, heap>>
       ELSE CASE i.T = "ItemComment" ->
                   /\ heap' = appendToGroup(heap, i.Val)
                   /\ comments' = pending(heap')
                   /\ CallScanner("loop")
                   /\ pstate' = pstate
              [] i.T = "ItemEntryDelim" ->
                   /\ Return("decl")
                   /\ UNCHANGED <<comments, heap>>
              [] OTHER ->
                   /\ heap' = resetComms(heap)
                   /\ comments' = pending(heap')
                   /\ Return("err")
    /\ UNCHANGED <<currDecl, stmt, nodes, closed, results>>

ParserComms == ParserCommsBegin \/ ParserCommsRecv

ParserDeclBegin ==
    /\ Dispatch("decl")
    /\ CallScanner("item")
    /\ UNCHANGED <<src, input, other, scanVars, pstate, comments, heap, currDecl, stmt, nodes, closed,
                   toks, results>>

ParserDeclRecv ==
    /\ Recv("decl")
    /\ LET i == Head(items) IN
       IF checkErr(i.T) # "null"
       THEN /\ Return(checkErr(i.T))
            /\ currDecl' = currDecl
       ELSE CASE i.T = "ItemEntry" ->
                   /\ currDecl' = EntryDecl(declName(i.Val), <<>>, <<>>, <<>>)
                   /\ Return("entry")
              [] i.T = "ItemAbbrev" ->
                   /\ currDecl' = AbbrevDecl(<<>>, <<>>)
                   /\ Return("abbrev")
              [] i.T = "ItemPreamble" ->
                   /\ currDecl' = PreambleDecl(<<>>, <<>>)
                   /\ Return("preamble")
              [] OTHER ->
                   /\ currDecl' = currDecl
                   /\ Return("err")
    /\ UNCHANGED <<comments, heap, stmt, nodes, closed, results>>

ParserDecl == ParserDeclBegin \/ ParserDeclRecv

\* Parser.entry up to its first p.scanner.Next().
ParserEntryBegin ==
    /\ Dispatch("entry")
    /\ IF currDecl.type # "EntryDecl"
       THEN /\ Return("err")
            /\ stmt' = stmt
       ELSE /\ stmt' = FieldStmt(<<>>, <<>>)
            /\ CallScanner("delim")
            /\ pstate' = pstate
    /\ UNCHANGED <<src, input, other, scanVars, comments, heap, currDecl, nodes, closed, toks, results>>

\* The field Parser.entry appends on a FieldText item.
entryField(st, val) == FieldStmt(st.Key, val)

\* Parser.entry resumed with the item its p.scanner.Next() returned.
ParserEntryRecv ==
    /\ Recv("entry")
    /\ LET i == Head(items) IN
       IF checkErr(i.T) # "null"
       THEN /\ Return(checkErr(i.T))
            /\ UNCHANGED <<comments, heap, currDecl, stmt, nodes>>
       ELSE CASE ppc = "delim" ->
                   /\ CallScanner("key")
                   /\ UNCHANGED <<pstate, comments, heap, currDecl, stmt, nodes>>
              [] ppc = "key" ->
                   IF i.T # "ItemCiteKey"
                   THEN /\ Return("err")
                        /\ UNCHANGED <<comments, heap, currDecl, stmt, nodes>>
                   ELSE /\ currDecl' = [currDecl EXCEPT !.CiteKey = i.Val]
                        /\ CallScanner("loop")
                        /\ UNCHANGED <<pstate, comments, heap, stmt, nodes>>
              [] ppc = "loop" /\ i.T = "ItemComment" ->
                   /\ heap' = appendToGroup(heap, i.Val)
                   /\ comments' = pending(heap')
                   /\ CallScanner("loop")
                   /\ UNCHANGED <<pstate, currDecl, stmt, nodes>>
              [] ppc = "loop" /\ i.T = "ItemFieldType" ->
                   /\ stmt' = [stmt EXCEPT !.Key = i.Val]
                   /\ CallScanner("loop")
                   /\ UNCHANGED <<pstate, comments, heap, currDecl, nodes>>
              [] ppc = "loop" /\ i.T = "ItemFieldText" ->
                   IF ~StmtOk(entryField(stmt, i.Val))
                   THEN /\ Return("err")
                        /\ stmt' = entryField(stmt, i.Val)
                        /\ UNCHANGED <<comments, heap, currDecl, nodes>>
                   ELSE /\ currDecl' = [currDecl EXCEPT
                                          !.Fields = Append(@, entryField(stmt, i.Val))]
                        /\ stmt' = FieldStmt(<<>>, <<>>)
                        /\ CallScanner("loop")
                        /\ UNCHANGED <<pstate, comments, heap, nodes>>
              [] ppc = "loop" /\ i.T = "ItemRightDelim" ->
                   /\ nodes' = Append(nodes, [currDecl EXCEPT !.Comments = comments])
                   /\ currDecl' = [currDecl EXCEPT !.Comments = comments]
                   /\ heap' = resetComms(handOver(heap))
                   /\ comments' = pending(heap')
                   /\ Return("null")
                   /\ stmt' = stmt
              [] ppc = "loop" /\ i.T \in {"ItemComma", "ItemEqSgn"} ->
                   /\ CallScanner("loop")
                   /\ UNCHANGED <<pstate, comments, heap, currDecl, stmt, nodes>>
              [] OTHER ->
                   /\ Return("err")
                   /\ UNCHANGED <<comments, heap, currDecl, stmt, nodes>>
    /\ UNCHANGED <<closed, results>>

ParserEntry == ParserEntryBegin \/ ParserEntryRecv

\* Parser.preamble up to its first p.scanner.Next().
ParserPreambleBegin ==
    /\ Dispatch("preamble")
    /\ IF currDecl.type # "PreambleDecl"
       THEN Return("err")
       ELSE /\ CallScanner("delim")
            /\ pstate' = pstate
    /\ UNCHANGED <<src, input, other, scanVars, comments, heap, currDecl, stmt, nodes, closed, toks, results>>

ParserPreambleRecv ==
    /\ Recv("preamble")
    /\ LET i == Head(items) IN
       IF checkErr(i.T) # "null"
       THEN /\ Return(checkErr(i.T))
            /\ UNCHANGED <<comments, heap, currDecl, nodes>>
       ELSE CASE ppc = "delim" ->
                   /\ CallScanner("loop")
                   /\ UNCHANGED <<pstate, comments, heap, currDecl, nodes>>
              [] ppc = "loop" /\ i.T = "ItemComment" ->
                   /\ heap' = appendToGroup(heap, i.Val)
                   /\ comments' = pending(heap')
                   /\ CallScanner("loop")
                   /\ UNCHANGED <<pstate, currDecl, nodes>>
              [] ppc = "loop" /\ i.T = "ItemFieldText" ->
                   /\ currDecl' = [currDecl EXCEPT !.Value = i.Val]
                   /\ CallScanner("loop")
                   /\ UNCHANGED <<pstate, comments, heap, nodes>>
              [] ppc = "loop" /\ i.T = "ItemRightDelim" ->
                   /\ nodes' = Append(nodes, [currDecl EXCEPT !.Comments = comments])
                   /\ currDecl' = [currDecl EXCEPT !.Comments = comments]
                   /\ heap' = resetComms(handOver(heap))
                   /\ comments' = pending(heap')
                   /\ Return("null")
              [] OTHER ->
                   /\ Return("err")
                   /\ UNCHANGED <<comments, heap, currDecl, nodes>>
    /\ UNCHANGED <<stmt, closed, results>>

ParserPreamble == ParserPreambleBegin \/ ParserPreambleRecv

\* Parser.abbrev up to its first p.scanner.Next().
ParserAbbrevBegin ==
    /\ Dispatch("abbrev")
    /\ stmt' = FieldStmt(<<>>, <<>>)
    /\ IF currDecl.type # "AbbrevDecl"
       THEN Return("err")
       ELSE /\ CallScanner("delim")
            /\ pstate' = pstate
    /\ UNCHANGED <<src, input, other, scanVars, comments, heap, currDecl, nodes, closed, toks, results>>

\* decl.Field = &stmt: Field points to the handler's stmt, so the node that
\* is sent carries what stmt holds at that moment.  While the handler runs,
\* currDecl.Field = <<>> means nil and any other value means &stmt.
ParserAbbrevRecv ==
    /\ Recv("abbrev")
    /\ LET i == Head(items) IN
       IF checkErr(i.T) # "null"
       THEN /\ Return(checkErr(i.T))
            /\ UNCHANGED <<comments, heap, currDecl, stmt, nodes>>
       ELSE CASE ppc = "delim" ->
                   /\ CallScanner("loop")
                   /\ UNCHANGED <<pstate, comments, heap, currDecl, stmt, nodes>>
              [] ppc = "loop" /\ i.T = "ItemComment" ->
                   /\ heap' = appendToGroup(heap, i.Val)
                   /\ comments' = pending(heap')
                   /\ CallScanner("loop")
                   /\ UNCHANGED <<pstate, currDecl, stmt, nodes>>
              [] ppc = "loop" /\ i.T = "ItemFieldType" ->
                   /\ stmt' = [stmt EXCEPT !.Key = i.Val]
                   /\ currDecl' = IF currDecl.Field = <<>> THEN currDecl
                                  ELSE [currDecl EXCEPT !.Field = <<stmt'>>]
                   /\ CallScanner("loop")
                   /\ UNCHANGED <<pstate, comments, heap, nodes>>
              [] ppc = "loop" /\ i.T = "ItemFieldText" ->
                   /\ stmt' = [stmt EXCEPT !.Value = i.Val]
                   /\ IF ~StmtOk(stmt')
                      THEN /\ Return("err")
                           /\ currDecl' = IF currDecl.Field = <<>> THEN currDecl
                                          ELSE [currDecl EXCEPT !.Field = <<stmt'>>]
                      ELSE /\ currDecl' = [currDecl EXCEPT !.Field = <<stmt'>>]
                           /\ CallScanner("loop")
                           /\ pstate' = pstate
                   /\ UNCHANGED <<comments, heap, nodes>>
              [] ppc = "loop" /\ i.T = "ItemRightDelim" ->
                   /\ nodes' = Append(nodes, [currDecl EXCEPT !.Comments = comments])
                   /\ currDecl' = [currDecl EXCEPT !.Comments = comments]
                   /\ heap' = resetComms(handOver(heap))
                   /\ comments' = pending(heap')
                   /\ Return("null")
                   /\ stmt' = stmt
              [] ppc = "loop" /\ i.T = "ItemEqSgn" ->
                   /\ CallScanner("loop")
                   /\ UNCHANGED <<pstate, comments, heap, currDecl, stmt, nodes>>
              [] OTHER ->
                   /\ Return("err")
                   /\ UNCHANGED <<comments, heap, currDecl, stmt, nodes>>
    /\ UNCHANGED <<closed, results>>

ParserAbbrev == ParserAbbrevBegin \/ ParserAbbrevRecv

ParserStep == ParserNull \/ ParserErr \/ ParserEof \/ ParserComms \/ ParserDecl \/ ParserEntry \/ ParserPreamble \/ ParserAbbrev

----------------------------------------------------------------------------
(* The inputs: texts rendered from a list of constructs.                    *)

SeqsUpTo(S, n) == UNION {[1..m -> S] : m \in 0..n}

RECURSIVE Concat(_)
Concat(ss) == IF ss = <<>> THEN <<>> ELSE Head(ss) \o Concat(Tail(ss))

\* field values
vInt == <<"1","9">>
vBrace == <<"{","A","}">>
vQuote == <<"\"","Y","\"">>
vNest == <<"{","a","{",",","}","b","}">>
vQComma == <<"\"","a",",","b","\"">>
vBraceSpecial == <<"{","%",")","}">>
vQParen == <<"\"","a",")","b","\"">>
vQPct == <<"\"","a","%","b","\"">>
vEsc == <<"\"","\\","\"","\"">>
vBare == <<"j","a","n">>
vUnbal == <<"\"","a">>
vDblEsc == <<"\"","a","\\","\\","\"">>
vBraceQuote == <<"{","a","\"","b","}">>

\* Values enclosed in a quote pair or a brace pair, interior balanced.
DelimitedValues == {vBrace, vQuote, vNest, vQComma, vBraceSpecial, vQParen, vQPct, vEsc}
DigitValues == {vInt}
GoodValues == DelimitedValues \cup DigitValues
Values == GoodValues \cup {vBare, vUnbal, vDblEsc, vBraceQuote}

Field(k, v, cm) == [k |-> k, v |-> v, cm |-> cm]
NoText == <<>>
cText == <<"c">>
cTwo == <<"c","\n"," ","%"," ","d">>   \* two comment lines, c and d
cBlank == <<" ">>                     \* a comment line with nothing on it

Construct(kind, pre, name, open, close, key, cm0, fields) ==
    [kind |-> kind, pre |-> pre, name |-> name, open |-> open, close |-> close,
     key |-> key, cm0 |-> cm0, fields |-> fields, late |-> FALSE]

\* The same construct written with the comma of a field after the comment
\* that follows the value.
LateComma(d) == [d EXCEPT !.late = TRUE]

Opens == {"{", "("}
Closes == {<<"}">>, <<")">>}
PreTexts == {NoText, <<"%"," ","c">>}

TailFields == {Field(<<"g">>, vBrace, NoText), Field(<<"h">>, <<"7">>, NoText)}

\* generic entries: every value, then a few plain fields, no field written
\* twice in a row
EntriesByValue ==
    {Construct("entry", NoText, <<"a">>, o, <<delims(o)>>, <<"k">>, NoText,
               <<Field(<<"f">>, v, cm)>> \o t) :
        o \in Opens, v \in Values, cm \in {NoText, cText},
        t \in {u \in SeqsUpTo(TailFields, MaxFields - 1) :
                  \A i \in 1..(Len(u) - 1) : u[i] # u[i + 1]}}

\* generic entries: every shape of name, delimiters, key and comments
EntriesByShape ==
    {Construct("entry", pre, n, o, c, k, cm0, fs) :
        pre \in PreTexts, n \in {<<"a">>, <<"A","b">>}, o \in Opens,
        c \in Closes \cup {NoText}, k \in {<<"k">>, <<"k"," ","k">>},
        cm0 \in {NoText, cText},
        fs \in {<<>>, <<Field(<<"f">>, vBrace, NoText)>>}}

\* type names that are no NAME: empty, or with a character outside NAME
BadNames == {<<>>, <<"a","=">>}

\* generic entries: type names with a digit or only punctuation, names that
\* are no NAME, and empty cite keys
EntriesByName ==
    {Construct("entry", NoText, n, "{", <<"}">>, k, NoText, <<Field(<<"f">>, vInt, NoText)>>) :
        n \in {<<"a","1">>, <<"-">>} \cup BadNames, k \in {<<"k">>, <<>>}}

\* generic entries: comment lines after the cite key and after the values
EntriesByComment ==
    {IF late THEN LateComma(d) ELSE d :
        late \in BOOLEAN,
        d \in {Construct("entry", NoText, <<"a">>, "(", <<")">>, <<"k">>, cm0,
                          <<Field(<<"f">>, v, cm1), Field(<<"g">>, <<"2">>, cm2)>>) :
                   cm0 \in {NoText, cTwo, cBlank}, v \in {vBrace, vInt},
                   cm1 \in {NoText, cText, cTwo}, cm2 \in {NoText, cText}}}

StringNames == {<<"s","t","r","i","n","g">>, <<"S","T","R","i","n","g">>}
PreambleNames == {<<"p","r","e","a","m","b","l","e">>, <<"P","R","E","A","M","B","L","E">>}

Abbrevs ==
    {Construct("abbrev", NoText, n, o, <<delims(o)>>, NoText, NoText,
               <<Field(<<"x">>, v, NoText)>>) :
        n \in StringNames, o \in Opens, v \in Values}
    \cup
    {Construct("abbrev", pre, n, o, c, NoText, NoText, <<Field(<<"x">>, vQuote, NoText)>>) :
        pre \in PreTexts, n \in StringNames, o \in Opens,
        c \in Closes \cup {NoText, <<",", "}">>}}

Preambles ==
    {Construct("preamble", NoText, n, o, <<delims(o)>>, NoText, NoText,
               <<Field(NoText, v, NoText)>>) :
        n \in PreambleNames, o \in Opens, v \in Values}
    \cup
    {Construct("preamble", pre, n, o, c, NoText, NoText, <<Field(NoText, vQuote, NoText)>>) :
        pre \in PreTexts, n \in PreambleNames, o \in Opens,
        c \in Closes \cup {NoText, <<",", "}">>}}

\* text that is no declaration: top-level text, or a failing read
Raw(text) == Construct("raw", text, NoText, "", NoText, NoText, NoText, <<>>)

Firsts == EntriesByValue \cup EntriesByShape \cup EntriesByName \cup EntriesByComment
          \cup Abbrevs \cup Preambles
          \cup {Raw(<<"t">>), Raw(<<IOERR>>)}

Followers ==
    { Construct("entry", <<"%"," ","d">>, <<"b">>, "{", <<"}">>, <<"j">>, NoText,
                <<Field(<<"g">>, <<"2">>, NoText)>>),
      Construct("abbrev", NoText, <<"s","t","r","i","n","g">>, "(", <<")">>, NoText, NoText,
                <<Field(<<"y">>, <<"\"","Z","\"">>, NoText)>>),
      Raw(<<"t">>),
      Raw(<<IOERR>>) }

\* the inputs: a first construct and the ones after it; text that is no
\* declaration comes last, the comment before the following entry stands
\* for text between two declarations
Sources ==
    {<<>>} \cup {<<d>> \o t : d \in Firsts,
                              t \in {u \in SeqsUpTo(Followers, MaxDecls - 1) :
                                        \A i \in 1..(Len(u) - 1) : u[i].kind # "raw"}}

RenderComment(cm) == IF cm = NoText THEN <<>> ELSE <<" ","%"," ">> \o cm \o <<"\n">>

RECURSIVE RenderFields(_, _)
RenderFields(fs, i) ==
    IF i > Len(fs) THEN <<>>
    ELSE <<" ">> \o fs[i].k \o <<" ","="," ">> \o fs[i].v
         \o (IF i < Len(fs) THEN <<",">> ELSE <<>>)
         \o RenderComment(fs[i].cm)
         \o RenderFields(fs, i + 1)

RECURSIVE RenderFieldsLate(_, _)
RenderFieldsLate(fs, i) ==
    IF i > Len(fs) THEN <<>>
    ELSE <<" ">> \o fs[i].k \o <<" ","="," ">> \o fs[i].v
         \o RenderComment(fs[i].cm)
         \o (IF i < Len(fs) THEN <<",">> ELSE <<>>)
         \o RenderFieldsLate(fs, i + 1)

RenderPre(d) == IF d.pre = NoText THEN <<>> ELSE d.pre \o <<"\n">>

Render(d) ==
    CASE d.kind = "raw" -> d.pre
      [] d.kind = "entry" ->
            RenderPre(d) \o <<"@">> \o d.name \o <<d.open>> \o d.key \o <<",">>
            \o RenderComment(d.cm0)
            \o (IF d.late THEN RenderFieldsLate(d.fields, 1) ELSE RenderFields(d.fields, 1))
            \o d.close
      [] d.kind = "abbrev" ->
            RenderPre(d) \o <<"@">> \o d.name \o <<d.open>>
            \o d.fields[1].k \o <<" ","="," ">> \o d.fields[1].v \o d.close
      [] d.kind = "preamble" ->
            RenderPre(d) \o <<"@">> \o d.name \o <<" ", d.open, " ">> \o d.fields[1].v \o d.close

RenderAll(ds) == Concat([i \in DOMAIN ds |-> Render(ds[i]) \o <<"\n">>])

----------------------------------------------------------------------------
(* The consumer of a bare Scanner.                                          *)

NumTerminalToks ==
    Cardinality({i \in DOMAIN toks : toks[i].T \in {"ItemEOF", "ItemErr"}})

\* The consumer calls Scanner.Next.
ScannerNextCall ==
    /\ ctl = "idle"
    /\ NumTerminalToks < MaxExtraCalls
    /\ ctl' = "snext"
    /\ UNCHANGED <<src, input, other, scanVars, parseVars, toks>>

\* Scanner.Next, receive case: i := <-s.items.
ScannerNextReturn ==
    /\ ctl = "snext"
    /\ items # <<>>
    /\ toks' = Append(toks, Head(items))
    /\ items' = Tail(items)
    /\ ctl' = "idle"
    /\ UNCHANGED <<src, input, other, pos, unread, sstate, bracers, entryT, delim, parseVars>>

----------------------------------------------------------------------------
(* A Scannable other than scan.Scanner: it hands out the items of a script  *)
(* and then EOF.  The script is held in input, pos counts the items handed  *)
(* out.                                                                     *)

StubScannerNext ==
    /\ ctl = "snext"
    /\ sstate = "stub"
    /\ items = <<>>
    /\ items' = <<IF pos < Len(input) THEN input[pos + 1] ELSE Item("ItemEOF", <<>>)>>
    /\ pos' = IF pos < Len(input) THEN pos + 1 ELSE pos
    /\ UNCHANGED <<src, input, other, unread, sstate, bracers, entryT, delim, ctl, toks, parseVars>>

tEntryDelim == Item("ItemEntryDelim", <<"@">>)
tEntry == Item("ItemEntry", <<"a">>)
tAbbrev == Item("ItemAbbrev", <<"s","t","r","i","n","g">>)
tPreamble == Item("ItemPreamble", <<"p","r","e","a","m","b","l","e">>)
tLeftDelim == Item("ItemLeftDelim", <<"{">>)
tRightDelim == Item("ItemRightDelim", <<"}">>)
tCiteKey == Item("ItemCiteKey", <<"k">>)
tComma == Item("ItemComma", <<",">>)
tFieldType == Item("ItemFieldType", <<"f">>)
tEqSgn == Item("ItemEqSgn", <<"=">>)
tFieldText == Item("ItemFieldText", vBrace)
tFieldTextTwo == Item("ItemFieldText", vQuote)
tComment == Item("ItemComment", cText)
tErr == Item("ItemErr", <<>>)
tEOF == Item("ItemEOF", <<>>)

\* how a script begins: nothing, or the items that open a declaration
ScriptHeads ==
    { <<>>, <<tComment, tEntryDelim>>,
      <<tEntryDelim, tEntry, tLeftDelim, tCiteKey>>,
      <<tEntryDelim, tEntry, tLeftDelim>>,
      <<tEntryDelim, tAbbrev, tLeftDelim>>,
      <<tEntryDelim, tPreamble, tLeftDelim>>,
      <<tEntryDelim, tEntry, tComma, tCiteKey>>,
      <<tEntryDelim, tAbbrev>>,
      <<tEntryDelim, tPreamble>> }

\* the items a body is made of
BodyItems == {tFieldType, tEqSgn, tFieldText, tFieldTextTwo, tRightDelim}

\* items that appear once, anywhere a body item could
OddItems ==
    {tComment, tComma, tErr, tEOF, tCiteKey, tLeftDelim, tEntry, tEntryDelim,
     Item("ItemFieldType", <<>>), Item("ItemFieldText", <<>>)}

Scripts ==
    {h \o t : h \in ScriptHeads, t \in SeqsUpTo(BodyItems, MaxItems)}
    \cup {h \o <<o>> \o t : h \in ScriptHeads, o \in OddItems,
                            t \in SeqsUpTo({tFieldType, tFieldText, tRightDelim}, 2)}

----------------------------------------------------------------------------
(* Two pipelines over the same input, driven in turn by one consumer.       *)

NoPipeline == <<>>

\* The state NewReader, NewScanner and NewParser give a fresh pipeline.
NewPipeline ==
    [pos |-> NewReader.at, unread |-> [last |-> FALSE, done |-> 0, failed |-> 0],
     sstate |-> "null", bracers |-> 0, entryT |-> "entry", delim |-> "",
     items |-> <<>>, pstate |-> "null", ppc |-> "none", comments |-> <<>>,
     heap |-> NewHeap, currDecl |-> NilNode, stmt |-> FieldStmt(<<>>, <<>>), nodes |-> <<>>, closed |-> 0,
     toks |-> <<>>, results |-> <<>>]

\* The state of the pipeline the consumer is driving.
ThisPipeline ==
    [pos |-> pos, unread |-> unread, sstate |-> sstate, bracers |-> bracers, entryT |-> entryT, delim |-> delim,
     items |-> items, pstate |-> pstate, ppc |-> ppc, comments |-> comments,
     heap |-> heap, currDecl |-> currDecl, stmt |-> stmt, nodes |-> nodes, closed |-> closed,
     toks |-> toks, results |-> results]

\* Two pipelines that read from one Reader.
ownedSharedReader(o) == [o EXCEPT !.pos = pos]

\* What a pipeline owns: every field of its Reader, Scanner and Parser.
owned(o) == o

\* Between two calls of Parser.Next the consumer turns to the other pipeline.
Switch ==
    /\ ctl = "idle"
    /\ other # NoPipeline
    /\ other' = ThisPipeline
    /\ LET o == owned(other) IN
        /\ pos' = o.pos /\ unread' = o.unread /\ sstate' = o.sstate /\ bracers' = o.bracers
        /\ entryT' = o.entryT /\ delim' = o.delim /\ items' = o.items
        /\ pstate' = o.pstate /\ ppc' = o.ppc /\ comments' = o.comments /\ heap' = o.heap
        /\ currDecl' = o.currDecl /\ stmt' = o.stmt /\ nodes' = o.nodes
        /\ closed' = o.closed /\ toks' = o.toks /\ results' = o.results
    /\ UNCHANGED <<src, input, ctl>>

\* inputs for the pair of pipelines
PairFirsts ==
    { Construct("entry", <<"%"," ","c">>, <<"A","b">>, "(", <<")">>, <<"k">>, cText,
                <<Field(<<"f">>, vQComma, cText), Field(<<"h">>, <<"7">>, NoText)>>),
      Construct("entry", NoText, <<"a">>, "{", <<")">>, <<"k">>, NoText,
                <<Field(<<"f">>, vBrace, NoText)>>),
      Construct("preamble", NoText, <<"p","r","e","a","m","b","l","e">>, "{", <<"}">>,
                NoText, NoText, <<Field(NoText, vQuote, NoText)>>) }
    \cup Followers

PairSources ==
    {<<>>} \cup {<<d>> \o t : d \in PairFirsts, t \in SeqsUpTo(Followers, MaxDecls - 1)}

----------------------------------------------------------------------------
(* Specifications.                                                          *)

Init ==
    /\ src \in Sources
    /\ input = RenderAll(src)
    /\ pos = 0
    /\ unread = NewPipeline.unread
    /\ sstate = "null"
    /\ bracers = 0
    /\ entryT = "entry"
    /\ delim = ""
    /\ items = <<>>
    /\ pstate = "null"
    /\ ppc = "none"
    /\ comments = <<>>
    /\ heap = NewHeap
    /\ currDecl = NilNode
    /\ stmt = FieldStmt(<<>>, <<>>)
    /\ nodes = <<>>
    /\ closed = 0
    /\ ctl = "idle"
    /\ toks = <<>>
    /\ results = <<>>
    /\ other = NoPipeline

\* The pipeline: a consumer pulls declarations from the Parser, which pulls
\* items from the Scanner.
Next == ParserNextCall \/ ParserNextReturn \/ ParserStep \/ ScannerStep

Spec == Init /\ [][Next]_vars

\* bodies of an abbreviation that lack a key, a value or both, or that
\* go on after the first field
AbbrevBodies ==
    { <<>>, <<"x">>, <<"="," ">> \o vQuote, <<"x"," ","=">>, <<"x","=">> \o vQuote \o <<",">>,
      <<"x","=">> \o vQuote \o <<",","y","=">> \o vInt, <<"x","=">> \o vQuote \o <<",","y","=">>,
      <<"x","=">> \o vQuote \o <<"%","c","\n">> }

\* bodies of a preamble without a value, or with more than the value
PreambleBodies ==
    { <<>>, <<" ">>, vQuote \o <<",">>, vQuote \o <<"%","c","\n">>, <<"x","=">> \o vQuote }

\* inputs of one abbreviation or preamble with such a body
BodySources ==
    {<<Raw(<<"@","s","t","r","i","n","g","{">> \o b \o <<"}">>)>> : b \in AbbrevBodies}
    \cup {<<Raw(<<"@","p","r","e","a","m","b","l","e","{">> \o b \o <<"}">>)>> : b \in PreambleBodies}

\* The pipeline run by a consumer that keeps calling Parser.Next: the
\* program is one thread, which takes its next step whenever it has one.
InitLive ==
    /\ src \in PairSources \cup BodySources
    /\ input = RenderAll(src)
    /\ pos = NewPipeline.pos
    /\ unread = NewPipeline.unread
    /\ sstate = NewPipeline.sstate
    /\ bracers = NewPipeline.bracers
    /\ entryT = NewPipeline.entryT
    /\ delim = NewPipeline.delim
    /\ items = NewPipeline.items
    /\ pstate = NewPipeline.pstate
    /\ ppc = NewPipeline.ppc
    /\ comments = NewPipeline.comments
    /\ heap = NewPipeline.heap
    /\ currDecl = NewPipeline.currDecl
    /\ stmt = NewPipeline.stmt
    /\ nodes = NewPipeline.nodes
    /\ closed = NewPipeline.closed
    /\ toks = NewPipeline.toks
    /\ results = NewPipeline.results
    /\ ctl = "idle"
    /\ other = NoPipeline

\* Scanner.Next is in its loop with nothing to receive, so that the default
\* case runs the handler of the current state.  Every handler of the state
\* table is total, so this is ENABLED <<ScannerStep>>_vars written out as a
\* state predicate.
ScannerRunnable == ctl = "snext" /\ items = <<>>

\* Weak fairness of the scanner's steps, WF_vars(ScannerStep), with the
\* enabling condition written as ScannerRunnable.
FairScanner == []<>~ScannerRunnable \/ []<><<ScannerStep>>_vars

\* The program is one thread that takes its next step whenever it has one,
\* and the consumer keeps calling Parser.Next: each of the four kinds of
\* step is taken when it stays possible.
SpecLive ==
    /\ InitLive /\ [][Next]_vars
    /\ WF_vars(ParserNextCall) /\ WF_vars(ParserNextReturn) /\ WF_vars(ParserStep)
    /\ FairScanner

\* A consumer pulls items from the Scanner directly.
NextScan == ScannerNextCall \/ ScannerNextReturn \/ ScannerStep

SpecScan == Init /\ [][NextScan]_vars

\* The Parser over a scripted Scannable.
InitTok ==
    /\ src = <<>>
    /\ input \in Scripts
    /\ pos = 0
    /\ unread = NewPipeline.unread
    /\ sstate = "stub"
    /\ bracers = 0
    /\ entryT = "entry"
    /\ delim = ""
    /\ items = <<>>
    /\ pstate = "null"
    /\ ppc = "none"
    /\ comments = <<>>
    /\ heap = NewHeap
    /\ currDecl = NilNode
    /\ stmt = FieldStmt(<<>>, <<>>)
    /\ nodes = <<>>
    /\ closed = 0
    /\ ctl = "idle"
    /\ toks = <<>>
    /\ results = <<>>
    /\ other = NoPipeline

NextTok == ParserNextCall \/ ParserNextReturn \/ ParserStep \/ StubScannerNext

SpecTok == InitTok /\ [][NextTok]_vars

\* Two pipelines over the same input.
InitPair ==
    /\ src \in PairSources
    /\ input = RenderAll(src)
    /\ pos = NewPipeline.pos
    /\ unread = NewPipeline.unread
    /\ sstate = NewPipeline.sstate
    /\ bracers = NewPipeline.bracers
    /\ entryT = NewPipeline.entryT
    /\ delim = NewPipeline.delim
    /\ items = NewPipeline.items
    /\ pstate = NewPipeline.pstate
    /\ ppc = NewPipeline.ppc
    /\ comments = NewPipeline.comments
    /\ heap = NewPipeline.heap
    /\ currDecl = NewPipeline.currDecl
    /\ stmt = NewPipeline.stmt
    /\ nodes = NewPipeline.nodes
    /\ closed = NewPipeline.closed
    /\ ctl = "idle"
    /\ toks = NewPipeline.toks
    /\ results = NewPipeline.results
    /\ other = NewPipeline

NextPair == Next \/ Switch

SpecPair == InitPair /\ [][NextPair]_vars

----------------------------------------------------------------------------
(* Properties.                                                              *)

TerminalItems == {"ItemEOF", "ItemErr"}
NilResult == [node |-> NilNode, ok |-> FALSE]
NumOk == Cardinality({i \in DOMAIN results : results[i].ok})

\* the constructs of the input that are declarations
DeclSrc == SelectSeq(src, LAMBDA d : d.kind # "raw")

\* node is a declaration of the construct d: same variant, same key
Matches(node, d) ==
    CASE d.kind = "entry" -> node.type = "EntryDecl" /\ node.CiteKey = TrimSpace(d.key)
      [] d.kind = "abbrev" ->
            node.type = "AbbrevDecl" /\ node.Field # <<>> /\ node.Field[1].Key = d.fields[1].k
      [] d.kind = "preamble" -> node.type = "PreambleDecl"
      [] OTHER -> FALSE

Counterpart(o) == IF o = "{" THEN "}" ELSE IF o = "(" THEN ")" ELSE "?"

\* the construct closes its body with the delimiter of the other flavour
Mismatched(d) == d.kind # "raw" /\ d.close \in Closes /\ d.close # <<Counterpart(d.open)>>

\* C1: once Scanner.Next has returned EOF every later call returns EOF, once
\* it has returned Error every later call returns Error; no other item
\* follows a terminal one.
C1_SinkStable ==
    \A i \in DOMAIN toks :
        toks[i].T \in TerminalItems => \A j \in (i + 1)..Len(toks) : toks[j] = toks[i]

\* C1 witness: Error was returned, after other items, and Next was called
\* again while part of the input was still unread.
C1_Witness ==
    /\ Len(toks) >= 3
    /\ toks[Len(toks) - 1].T = "ItemErr"
    /\ toks[Len(toks)].T = "ItemErr"
    /\ toks[1].T \notin TerminalItems
    /\ pos + 3 < Len(input)

\* the construct has a lexical or syntax fault: no closing delimiter, one of
\* the wrong flavour, a stray comma before it, a cite key that is no NAME, or
\* an unbalanced value; or it is a failing read
Faulty(d) ==
    \/ d.kind = "raw" /\ d.pre = <<IOERR>>
    \/ d.kind # "raw" /\ d.close # <<Counterpart(d.open)>>
    \/ d.kind = "entry" /\ (d.key \in {<<"k"," ","k">>, <<>>} \/ d.name \in BadNames)
    \/ \E j \in DOMAIN d.fields : d.fields[j].v = vUnbal

\* the constructs before the first faulty one, declarations only
RECURSIVE LeadDecls(_)
LeadDecls(ds) ==
    IF ds = <<>> \/ Faulty(Head(ds)) THEN <<>>
    ELSE IF Head(ds).kind = "raw" THEN LeadDecls(Tail(ds))
    ELSE <<Head(ds)>> \o LeadDecls(Tail(ds))

\* C2: every declaration Parser.Next returns is the declaration of a
\* construct that precedes the first lexical or syntax fault of the input,
\* in source order; nothing is returned for the faulty construct or for
\* text after it.
C2_FailFast ==
    \A i \in DOMAIN results :
        results[i].ok => (i <= Len(LeadDecls(src)) /\ Matches(results[i].node, LeadDecls(src)[i]))

\* C3: the nodes channel is closed at most once and nothing is sent on it
\* afterwards; the call that observes a terminal item or a syntax error
\* returns (nil, false), and so does every later call.
C3_TerminationStable ==
    /\ closed <= 1
    /\ closed = 1 => (nodes = <<>> /\ pstate \in {"err", "eof"})
    /\ pstate \in {"err", "eof"} => nodes = <<>>
    /\ \A i \in DOMAIN results : ~results[i].ok => (results[i] = NilResult /\ closed = 1)
    /\ \A i, j \in DOMAIN results : (i < j /\ ~results[i].ok) => results[j] = NilResult
    /\ (ctl = "idle" /\ toks # <<>> /\ toks[Len(toks)].T \in TerminalItems)
          => (results # <<>> /\ results[Len(results)] = NilResult)
    /\ (ctl = "idle" /\ pstate = "err") => (results # <<>> /\ results[Len(results)] = NilResult)

\* C3 witness: Parser.Next was called again after it had reported
\* termination on an error.
C3_Witness ==
    /\ Len(results) >= 2
    /\ results[Len(results) - 1] = NilResult
    /\ results[Len(results)] = NilResult
    /\ pstate = "err"
    /\ closed = 1

RightDelimIdx == {i \in DOMAIN toks : toks[i].T = "ItemRightDelim"}
LeftDelimBefore(i) == {k \in 1..(i - 1) : toks[k].T = "ItemLeftDelim"}
Max(S) == CHOOSE x \in S : \A y \in S : y <= x

\* C4: a RightDelim item is only ever the counterpart of the LeftDelim item
\* before it; no declaration is returned for a construct whose closing
\* delimiter has the other flavour, and the scan of such a construct ends
\* with Error and without a RightDelim item.
C4_MismatchRejected ==
    /\ \A i \in RightDelimIdx :
          /\ LeftDelimBefore(i) # {}
          /\ toks[i].Val = <<Counterpart(toks[Max(LeftDelimBefore(i))].Val[1])>>
    /\ \A i \in DOMAIN results :
          (results[i].ok /\ i <= Len(DeclSrc)) => ~Mismatched(DeclSrc[i])
    /\ (src # <<>> /\ Mismatched(src[1]) /\ results # <<>>)
          => /\ results[1] = NilResult
             /\ toks[Len(toks)].T = "ItemErr"
             /\ RightDelimIdx = {}

\* C4 witness: the scanner reached the wrong closing delimiter at depth 1
\* (the field text before it was sent) and the parse has ended.
C4_Witness ==
    /\ src # <<>> /\ Mismatched(src[1])
    /\ results # <<>>
    /\ \E i \in DOMAIN toks : toks[i].T = "ItemFieldText"

----------------------------------------------------------------------------
(* Declarations against the constructs they were written as.               *)

Closed(d) == d.kind # "raw" /\ d.close = <<Counterpart(d.open)>>
KeyOk(d) == d.kind # "entry" \/ d.key \in {<<"k">>, <<"j">>}

\* a construct written correctly whose values are digit runs or delimited
WellFormed(d) ==
    /\ Closed(d)
    /\ KeyOk(d)
    /\ d.name \notin BadNames
    /\ \A j \in DOMAIN d.fields : d.fields[j].v \in GoodValues

\* the (key, value) pairs of the construct, as written
FieldsOf(d) == [j \in DOMAIN d.fields |-> FieldStmt(d.fields[j].k, d.fields[j].v)]

\* the (key, value) pairs a returned declaration holds
StoredFields(node) ==
    CASE node.type = "EntryDecl" -> node.Fields
      [] node.type = "AbbrevDecl" -> node.Field
      [] node.type = "PreambleDecl" -> <<FieldStmt(<<>>, node.Value)>>
      [] OTHER -> <<>>

FirstReturned == results # <<>> /\ src # <<>>

\* C5: for a well-formed generic entry the first Parser.Next returns an
\* EntryDecl with the scanned cite key and the fields (k1,v1)..(kn,vn) in
\* source order, each key with the value after its own '='.
C5_EntryFields ==
    (FirstReturned /\ src[1].kind = "entry" /\ WellFormed(src[1]))
        => /\ results[1].ok
           /\ results[1].node.type = "EntryDecl"
           /\ results[1].node.CiteKey = src[1].key
           /\ results[1].node.Fields = FieldsOf(src[1])

\* C6 as claimed: the EntryDecl's type name is the entry-type text exactly as
\* scanned, letter case preserved.
C6_NameAsScanned ==
    (FirstReturned /\ src[1].kind = "entry" /\ results[1].ok)
        => results[1].node.Name = src[1].name

Lowered(name) == IF name = <<"A","b">> THEN <<"a","b">> ELSE name

KindItems == {"ItemEntry", "ItemAbbrev", "ItemPreamble"}
KindItemOf(d) ==
    CASE d.kind = "entry" -> "ItemEntry"
      [] d.kind = "abbrev" -> "ItemAbbrev"
      [] d.kind = "preamble" -> "ItemPreamble"
      [] OTHER -> "none"

\* C6 amended: the EntryDecl's type name is the entry-type text in lower
\* case; the scanner's Entry, Abbrev and Preamble items carry the text as
\* written, and string/preamble are recognised in any letter case.
C6_NameLowered ==
    /\ (FirstReturned /\ src[1].kind = "entry" /\ results[1].ok)
          => results[1].node.Name = Lowered(src[1].name)
    /\ \A i \in DOMAIN toks :
          (/\ src # <<>> /\ src[1].kind # "raw"
           /\ toks[i].T \in KindItems /\ \A k \in 1..(i - 1) : toks[k].T \notin KindItems)
              => toks[i] = Item(KindItemOf(src[1]), src[1].name)

\* C6 witness: an entry written with an upper-case letter was returned.
C6_Witness ==
    /\ FirstReturned /\ src[1].kind = "entry" /\ results[1].ok
    /\ src[1].name = <<"A","b">>

\* C7: a value enclosed in a quote pair or a brace pair with balanced
\* interior is accepted and stored verbatim, whatever else it contains.
C7_DelimitedVerbatim ==
    (FirstReturned /\ WellFormed(src[1]) /\ src[1].fields # <<>>
        /\ src[1].fields[1].v \in DelimitedValues)
        => /\ results[1].ok
           /\ StoredFields(results[1].node) # <<>>
           /\ StoredFields(results[1].node)[1].Value = src[1].fields[1].v

\* the index in toks of the n-th item of type t, 0 if there is none
NthIdx(t, n) ==
    LET S == {i \in DOMAIN toks :
                 toks[i].T = t /\ Cardinality({k \in 1..i : toks[k].T = t}) = n}
    IN IF S = {} THEN 0 ELSE CHOOSE i \in S : TRUE

\* the j-th value of the construct is followed by a terminator of its own
Terminated(d, j) == j < Len(d.fields) \/ d.fields[j].cm # NoText \/ d.close # NoText

\* the index in toks after which the j-th value of the first construct is due
ValueDue(d, j) ==
    IF d.kind = "preamble" THEN NthIdx("ItemLeftDelim", 1) ELSE NthIdx("ItemEqSgn", j)

CommentLines(cm) ==
    CASE cm = NoText -> <<>>
      [] cm = cBlank -> <<>>
      [] cm = cTwo -> <<<<"c">>, <<"d">>>>
      [] OTHER -> <<cm>>

\* the comments of the construct in the order written
RECURSIVE FieldComments(_, _)
FieldComments(fs, i) ==
    IF i > Len(fs) THEN <<>>
    ELSE CommentLines(fs[i].cm) \o FieldComments(fs, i + 1)

CommentsOf(d) ==
    (IF d.pre = NoText THEN <<>> ELSE <<d.pre>>)
    \o CommentLines(d.cm0)
    \o FieldComments(d.fields, 1)

\* the letters used in comments of the inputs and nowhere else
CommentLetters == {"c", "d"}

\* the texts of the Comment items among toks[a..b]
CommentVals(a, b) ==
    LET cs == SelectSeq(SubSeq(toks, a, b), LAMBDA t : t.T = "ItemComment")
    IN [i \in DOMAIN cs |-> cs[i].Val]

OkIdx(n) ==
    CHOOSE i \in DOMAIN results :
        results[i].ok /\ Cardinality({k \in 1..i : results[k].ok}) = n

\* C9: the comment group of the n-th declaration returned holds exactly the
\* Comment items the scanner sent between the RightDelim that ended the
\* previous declaration and its own, in that order; for a closed first
\* construct these are the comments written before and inside it, and its
\* keys and values hold no comment text.
C9_CommentsAttached ==
    /\ \A n \in 1..NumOk :
          /\ NthIdx("ItemRightDelim", n) # 0
          /\ results[OkIdx(n)].node.Comments =
                CommentVals(IF n = 1 THEN 1 ELSE NthIdx("ItemRightDelim", n - 1) + 1,
                            NthIdx("ItemRightDelim", n))
    /\ (FirstReturned /\ results[1].ok /\ Closed(src[1]))
          => /\ results[1].node.Comments = CommentsOf(src[1])
             /\ \A j \in DOMAIN StoredFields(results[1].node) :
                   LET f == StoredFields(results[1].node)[j]
                   IN CommentLetters \cap (Range(f.Key) \cup Range(f.Value)) = {}

\* C9 witness: a declaration was returned with a comment written before it
\* and a comment written inside it.
C9_Witness ==
    /\ FirstReturned /\ results[1].ok /\ Closed(src[1])
    /\ src[1].pre # NoText /\ src[1].cm0 # NoText
    /\ Len(results[1].node.Comments) >= 2

\* C10: for a well-formed abbreviation '@string{k = v}', keyword in any
\* letter case, Parser.Next returns an AbbrevDecl whose field has key k and
\* value v with its delimiters.
C10_AbbrevField ==
    (FirstReturned /\ src[1].kind = "abbrev" /\ WellFormed(src[1]))
        => /\ results[1].ok
           /\ results[1].node.type = "AbbrevDecl"
           /\ results[1].node.Field = FieldsOf(src[1])

\* the Parser.Next calls have come to the terminating result
HasTerminated == NumTerminal >= 1

\* C11: for a well-formed preamble '@preamble{v}', keyword in any letter
\* case, with one delimited value v, Parser.Next returns a PreambleDecl whose
\* value is v with its delimiters, and the scanner sends no CiteKey,
\* FieldType or EqSgn item for it.
C11_PreambleValue ==
    (FirstReturned /\ src[1].kind = "preamble" /\ Closed(src[1])
        /\ src[1].fields[1].v \in DelimitedValues)
        => /\ results[1].ok
           /\ results[1].node.type = "PreambleDecl"
           /\ results[1].node.Value = src[1].fields[1].v
           /\ \A i \in 1..NthIdx("ItemRightDelim", 1) :
                 toks[i].T \notin {"ItemCiteKey", "ItemFieldType", "ItemEqSgn"}

\* values the scanner reads through to their last character
ScannedValues == (GoodValues \ {vQParen, vQPct}) \cup {<<"7">>, <<"2">>}

\* the input is one declaration that is cut off before its closing
\* delimiter and has no other fault
CutOff ==
    /\ Len(src) = 1 /\ src[1].kind # "raw"
    /\ src[1].close = NoText
    /\ KeyOk(src[1]) /\ src[1].name \notin BadNames
    /\ \A j \in DOMAIN src[1].fields : src[1].fields[j].v \in ScannedValues

\* C12 as claimed: when the input ends before the closing delimiter of an
\* open declaration, scanner and parser end in their error state and no
\* declaration is returned.
C12_CutOffIsError ==
    (CutOff /\ HasTerminated) => (sstate = "err" /\ pstate = "err" /\ NumOk = 0)

\* C12 amended: when the input ends before the closing delimiter of an open
\* declaration, the scanner sends EOF and stays in its eof state, the parser
\* ends in its eof state as after a complete input, and no declaration is
\* returned for the construct.
C12_CutOffIsEof ==
    (CutOff /\ HasTerminated)
        => /\ sstate = "eof" /\ pstate = "eof"
           /\ toks[Len(toks)] = Item("ItemEOF", <<>>)
           /\ \A i \in DOMAIN toks : toks[i].T \notin {"ItemErr", "ItemRightDelim"}
           /\ \A i \in DOMAIN results : results[i] = NilResult

\* C12 witness: an entry cut off after its first field has been read to the
\* end of input.
C12_Witness ==
    /\ CutOff /\ HasTerminated
    /\ src[1].kind = "entry" /\ src[1].fields # <<>>
    /\ \E i \in DOMAIN toks : toks[i].T = "ItemEqSgn"

\* C13: the caller of Parser.Next can tell termination by an error from the
\* clean end of input: the terminating result after Parser.eof is (nil,
\* false), and the terminating result after Parser.err differs from it.
C13_ErrorDistinct ==
    \A i \in DOMAIN results :
        ~results[i].ok => /\ (pstate = "eof" => results[i] = NilResult)
                          /\ (pstate = "err" => results[i] # NilResult)

IsPrefix(a, b) == Len(a) <= Len(b) /\ SubSeq(b, 1, Len(a)) = a

Enclosed(v) ==
    /\ Len(v) >= 2
    /\ \/ v[1] = "\"" /\ v[Len(v)] = "\""
       \/ v[1] = "{" /\ v[Len(v)] = "}"

Count(v, ch) == Cardinality({i \in DOMAIN v : v[i] = ch})

\* C15: every FieldText item is a non-empty run of digits, or a text
\* enclosed in a pair of quotes or braces with its braces balanced; a bare
\* word such as jan is never sent as FieldText.
C15_FieldTextShape ==
    \A i \in DOMAIN toks :
        toks[i].T = "ItemFieldText"
            => \/ toks[i].Val # <<>> /\ \A k \in DOMAIN toks[i].Val : IsDigitRune(toks[i].Val[k])
               \/ Enclosed(toks[i].Val) /\ Count(toks[i].Val, "{") = Count(toks[i].Val, "}")

EntryResults == {i \in DOMAIN results : results[i].ok /\ results[i].node.type = "EntryDecl"}

\* C16 as claimed: every EntryDecl returned has a non-empty cite key and a
\* type name made of letters only.
C16_LettersOnly ==
    \A i \in EntryResults :
        /\ results[i].node.CiteKey # <<>>
        /\ results[i].node.Name # <<>>
        /\ \A k \in DOMAIN results[i].node.Name : IsLetterRune(results[i].node.Name[k])

IsNameChar(r) == IsLetterRune(r) \/ IsDigitRune(r) \/ IsSpecial(r)

\* C16 amended: every EntryDecl returned by the parser over scan.Scanner has
\* a non-empty cite key and a non-empty type name, both made of NAME
\* characters only: letters, digits and the NAME punctuation; the type name
\* holds no upper-case letter.
C16_NameChars ==
    \A i \in EntryResults :
        /\ results[i].node.CiteKey # <<>>
        /\ \A k \in DOMAIN results[i].node.CiteKey : IsNameChar(results[i].node.CiteKey[k])
        /\ results[i].node.Name # <<>>
        /\ \A k \in DOMAIN results[i].node.Name :
              IsNameChar(results[i].node.Name[k]) /\ results[i].node.Name[k] \notin Range(UpperCase)

\* C16 witness: an entry whose type name holds a digit was returned.
C16_Witness ==
    /\ FirstReturned /\ results[1].ok
    /\ results[1].node.type = "EntryDecl" /\ results[1].node.Name = <<"a","1">>

\* the last item before toks[i] that is a FieldType, a FieldText or a LeftDelim
LastFieldItem(i) ==
    LET S == {j \in 1..(i - 1) : toks[j].T \in {"ItemFieldType", "ItemFieldText", "ItemLeftDelim"}}
    IN IF S = {} THEN 0 ELSE Max(S)

\* toks[i] was read by Parser.preamble
InPreamble(i) ==
    \E j \in 1..(i - 1) :
        toks[j].T = "ItemPreamble" /\ \A k \in (j + 1)..(i - 1) : toks[k].T # "ItemRightDelim"

\* toks[i] is a FieldText inside a body that no field key is waiting for
Unkeyed(i) ==
    /\ toks[i].T = "ItemFieldText"
    /\ ~InPreamble(i)
    /\ LastFieldItem(i) # 0
    /\ \/ toks[LastFieldItem(i)].T # "ItemFieldType"
       \/ toks[LastFieldItem(i)].Val = <<>>

\* C17: every FieldStmt in a returned declaration has a non-empty key and a
\* non-empty value, and a FieldText item that arrives while no field key is
\* pending sends the parser to its error state: it is the last item read.
C17_FieldStmtComplete ==
    /\ \A i \in DOMAIN results :
          (results[i].ok /\ results[i].node.type \in {"EntryDecl", "AbbrevDecl"})
              => \A j \in DOMAIN StoredFields(results[i].node) :
                    /\ StoredFields(results[i].node)[j].Key # <<>>
                    /\ StoredFields(results[i].node)[j].Value # <<>>
    /\ \A i \in DOMAIN toks : Unkeyed(i) => (i = Len(toks) /\ pstate = "err")

\* the LeftDelim and RightDelim items in the order sent
DelimToks == SelectSeq(toks, LAMBDA t : t.T \in {"ItemLeftDelim", "ItemRightDelim"})

\* C18: LeftDelim and RightDelim items alternate, starting with LeftDelim,
\* and every RightDelim is the counterpart of the LeftDelim before it.
C18_FlavourLock ==
    LET ds == DelimToks
    IN \A k \in DOMAIN ds :
           IF k % 2 = 1
           THEN ds[k].T = "ItemLeftDelim" /\ ds[k].Val \in {<<"{">>, <<"(">>}
           ELSE /\ ds[k].T = "ItemRightDelim"
                /\ ds[k].Val = <<Counterpart(ds[k - 1].Val[1])>>

\* C18 witness: two bodies were opened and closed, one of each flavour.
C18_Witness ==
    /\ Len(DelimToks) = 4
    /\ DelimToks[1].Val # DelimToks[3].Val

BetweenStates == {"null", "topLvlComment", "entryDelim", "entryType", "entryLeftBodyDelim"}
BodyStates == {"entryCiteKey", "entryComma", "entryComment", "entryTypeOrBrace",
               "entryFieldType", "entryEqSgn", "entryFieldText", "entryRightBodyDelim"}

Sent(t) == \E i \in DOMAIN items' : items'[i].T = t /\ items = <<>>

\* C19: Scanner.bracers is never negative, is 0 in the states between
\* declarations and at least 1 in the states inside a body, is 1 when a
\* FieldText or Comma item is sent, and goes from 1 to 0 when a RightDelim
\* item is sent.
C19_DepthCounter ==
    /\ [](/\ bracers >= 0
          /\ sstate \in BetweenStates => bracers = 0
          /\ sstate \in BodyStates => bracers >= 1)
    /\ [][/\ (Sent("ItemFieldText") \/ Sent("ItemComma")) => (bracers = 1 /\ bracers' = 1)
          /\ Sent("ItemRightDelim") => (bracers = 1 /\ bracers' = 0)]_vars

\* C19 witness: a value with nested braces was sent and its body closed.
C19_Witness ==
    /\ \E i \in DOMAIN toks : toks[i] = Item("ItemFieldText", vNest)
    /\ \E i \in DOMAIN toks : toks[i].T = "ItemRightDelim"
    /\ sstate \in BetweenStates /\ bracers = 0

\* the double quotes of v that do not come right after a backslash
QuotesByPrev(v) ==
    Cardinality({i \in DOMAIN v : v[i] = "\"" /\ (i = 1 \/ v[i - 1] # "\\")})

\* the double quotes of v from position i on, each backslash hiding the
\* character after it
RECURSIVE QuotesBySkip(_, _)
QuotesBySkip(v, i) ==
    IF i > Len(v) THEN 0
    ELSE IF v[i] = "\\" THEN QuotesBySkip(v, i + 2)
    ELSE (IF v[i] = "\"" THEN 1 ELSE 0) + QuotesBySkip(v, i + 1)

\* C20 as claimed: no FieldText item holds an odd number of double quotes,
\* not counting a quote that comes right after a backslash.
C20_EvenQuotesByPrev ==
    \A i \in DOMAIN toks :
        toks[i].T = "ItemFieldText" => QuotesByPrev(toks[i].Val) % 2 = 0

\* the first value of the input is the one with an unclosed quote, in a
\* declaration with no other fault
OddQuoted ==
    /\ src # <<>> /\ Closed(src[1]) /\ KeyOk(src[1]) /\ src[1].name \notin BadNames
    /\ src[1].fields # <<>> /\ src[1].fields[1].v = vUnbal

\* C20 amended: no FieldText item holds an odd number of double quotes when
\* a backslash hides the character after it (so the quote of \\" counts);
\* a value with an odd number ends in the error state with no FieldText sent.
C20_EvenQuotesBySkip ==
    /\ \A i \in DOMAIN toks :
          toks[i].T = "ItemFieldText" => QuotesBySkip(toks[i].Val, 1) % 2 = 0
    /\ (OddQuoted /\ HasTerminated)
          => /\ sstate = "err"
             /\ \A i \in DOMAIN toks : toks[i].T # "ItemFieldText"

\* C20 witness: a value with an unclosed quote was refused.
C20_Witness ==
    /\ OddQuoted /\ HasTerminated /\ sstate = "err"
    /\ \E i \in DOMAIN toks : toks[i].T = "ItemErr"

\* the declarations the parser has sent so far, in the order sent
Emitted ==
    LET ok == SelectSeq(results, LAMBDA r : r.ok)
    IN [i \in 1..Len(ok) |-> ok[i].node] \o nodes

\* C21: the group p.comments points to is never one that was handed to a
\* declaration, and it is empty right after a declaration is sent; no group
\* is handed to two declarations; the group handed to a declaration holds
\* the comments the declaration was sent with and never changes afterwards.
C21_CommentOwnership ==
    /\ [](/\ heap.cur \notin Range(heap.given)
          /\ \A j, k \in DOMAIN heap.given : j # k => heap.given[j] # heap.given[k]
          /\ Len(Emitted) = Len(heap.given)
          /\ \A k \in DOMAIN heap.given : Emitted[k].Comments = heap.mem[heap.given[k]]
          /\ comments = pending(heap))
    /\ [][/\ Len(heap'.given) > Len(heap.given) => pending(heap') = <<>>
          /\ \A k \in DOMAIN heap.given :
                /\ heap'.given[k] = heap.given[k]
                /\ heap'.mem[heap.given[k]] = heap.mem[heap.given[k]]]_vars

\* C21 witness: two declarations were returned, each with comments of its
\* own, the second collected after the first was sent.
C21_Witness ==
    /\ Len(heap.given) = 2
    /\ NumOk = 2
    /\ heap.mem[heap.given[1]] # <<>>
    /\ heap.mem[heap.given[2]] # <<>>
    /\ heap.mem[heap.given[1]] # heap.mem[heap.given[2]]

\* the states whose handler reads from the character source
ReadingStates == ScanStates \ {"null", "eof", "err"}

\* text a handler may hold in its buffer when a read does not succeed
PartialTexts == {<<>>, <<"x">>, <<" ","{","y","\"">>}

\* the positions at which a read does not succeed
FailingReads == {p \in {[ThisReader EXCEPT !.at = n] : n \in 0..Len(input)} : ReaderNext(p).t # charOk}

\* the outcome of every handler when its next read is made at position p
\* with text b in its buffer
OutcomesAt(p, b) ==
    {topLvlCommentLoop(p, b), entryDelimLoop(p), entryTypeLoop(p, b), leftBodyDelimLoop(p),
     rightBodyDelimLoop(p), citeKeyLoop(p, b), entryCommaLoop(p), entryCommentLoop(p, b),
     entryCommentCont(p, <<>>), entryTypeOrBraceLoop(p), entryFieldTypeLoop(p, b),
     entryEqSgnLoop(p)}
    \cup {entryFieldTextLoop(p, b, q, "x", br) : q \in 0..1, br \in 1..2}

\* C22: whatever a handler has buffered, a read that reports the end of
\* input ends it in state eof and a read that fails ends it in state err,
\* in both cases with nothing sent (the handlers are tried on each input
\* before its first item is returned); the scanner enters state eof only at
\* the end of the input, sending nothing but a comment that was complete;
\* once in state eof it has returned no Error item, and once in state err
\* no EOF item.
C22_EndOfInput ==
    /\ [](/\ toks = <<>> =>
                \A p \in FailingReads : \A b \in PartialTexts : \A r \in OutcomesAt(p, b) :
                    /\ ReaderNext(p).t = charEOF => (r.state = "eof" /\ r.out = <<>>)
                    /\ ReaderNext(p).t = charErr => (r.state = "err" /\ r.out = <<>>)
          /\ sstate = "eof" => \A i \in DOMAIN toks : toks[i].T # "ItemErr"
          /\ sstate = "err" => \A i \in DOMAIN toks : toks[i].T # "ItemEOF")
    /\ [][(sstate \in ReadingStates /\ sstate' = "eof")
            => /\ pos' = Len(input)
               /\ items' = <<>> \/ (sstate = "entryComment" /\ Len(items') = 1
                                    /\ items'[1].T = "ItemComment")]_vars

\* C22 witness: the input ended inside a body, after a field name had been
\* sent, and the scanner returned EOF.
C22_Witness ==
    /\ sstate = "eof" /\ bracers >= 1 /\ pos = Len(input)
    /\ toks # <<>> /\ toks[Len(toks)].T = "ItemEOF"
    /\ \E i \in DOMAIN toks : toks[i].T = "ItemFieldType"
    /\ \A i \in DOMAIN toks : toks[i].T # "ItemRightDelim"

\* the item at position i of the items returned, if there is one
TokAt(i) == IF i \in DOMAIN toks THEN toks[i].T ELSE "none"

\* C23: when a declaration was returned, the item after each Entry, Abbrev
\* or Preamble item is a LeftDelim and the item after the LeftDelim of an
\* entry is a CiteKey; when the item after one of the three is neither a
\* LeftDelim nor EOF nor Error, no declaration is returned and the parser
\* ends in its error state.
C23_ExpectedKinds ==
    \A i \in DOMAIN toks :
        toks[i].T \in KindItems =>
            /\ NumOk >= 1 =>
                  /\ TokAt(i + 1) = "ItemLeftDelim"
                  /\ toks[i].T = "ItemEntry" => TokAt(i + 2) = "ItemCiteKey"
            /\ TokAt(i + 1) \notin {"ItemLeftDelim", "ItemEOF", "ItemErr", "none"} =>
                  /\ NumOk = 0
                  /\ HasTerminated => pstate = "err"

\* C24: no AbbrevDecl is returned without its Field and no PreambleDecl
\* with an empty Value.
C24_ClosedComplete ==
    \A i \in DOMAIN results :
        results[i].ok =>
            /\ results[i].node.type = "AbbrevDecl" => results[i].node.Field # <<>>
            /\ results[i].node.type = "PreambleDecl" => results[i].node.Value # <<>>

\* C25: no Revert call of the scanner finds the reader without a rune to
\* unread: each one comes right after a read that returned a rune, never
\* after another Revert, the end of input or a failed read.
C25_SingleUndo == unread.failed = 0

\* C25 witness: a whole entry was scanned, with a Revert in each of the
\* handlers that push a character back, and the end of input was met.
C25_Witness ==
    /\ unread.done >= 7 /\ unread.failed = 0
    /\ sstate = "eof" /\ ~unread.last
    /\ \E i \in DOMAIN toks : toks[i].T = "ItemRightDelim"

\* the first EntryDelim item returned is at position i
FirstDelimAt(i) ==
    /\ toks[i].T = "ItemEntryDelim"
    /\ \A k \in 1..(i - 1) : toks[k].T # "ItemEntryDelim"

\* C26: the item after the first EntryDelim belongs to the first construct
\* of the input; when the name written there is a NAME it is a Preamble
\* item for preamble, an Abbrev item for string (both in any letter case)
\* and an Entry item otherwise, with the trimmed name as written for its
\* text; when the name is empty or holds a character outside NAME it is
\* an Error item.
C26_KindDetection ==
    \A i \in DOMAIN toks :
        (src # <<>> /\ src[1].kind # "raw" /\ FirstDelimAt(i) /\ i + 1 \in DOMAIN toks)
            => IF src[1].name \in BadNames
               THEN toks[i + 1].T = "ItemErr"
               ELSE toks[i + 1] = Item(KindItemOf(src[1]), src[1].name)

\* C26 witness: a preamble written in upper case, with a space before its
\* delimiter, was recognised and its name returned as written.
C26_Witness ==
    /\ src # <<>> /\ src[1].kind = "preamble"
    /\ \E i \in DOMAIN toks :
          toks[i] = Item("ItemPreamble", <<"P","R","E","A","M","B","L","E">>)

\* the kinds of item that may follow an item of kind t, when the item
\* before it is of kind b
Successors(b, t) ==
    CASE t = "ItemEntryDelim" -> KindItems \cup TerminalItems
      [] t \in KindItems -> {"ItemLeftDelim"}
      [] t = "ItemLeftDelim" /\ b = "ItemEntry" -> {"ItemCiteKey"} \cup TerminalItems
      [] t = "ItemLeftDelim" /\ b = "ItemPreamble" -> {"ItemFieldText"} \cup TerminalItems
      [] t = "ItemLeftDelim" /\ b = "ItemAbbrev" -> {"ItemFieldType"} \cup TerminalItems
      [] t = "ItemCiteKey" -> {"ItemComma"}
      [] t = "ItemFieldType" -> {"ItemEqSgn"}
      [] t = "ItemEqSgn" -> {"ItemFieldText"} \cup TerminalItems
      [] t = "ItemRightDelim" -> {"ItemComment", "ItemEntryDelim"} \cup TerminalItems
      [] OTHER -> {"ItemEntryDelim", "ItemLeftDelim", "ItemRightDelim", "ItemCiteKey",
                   "ItemComma", "ItemFieldType", "ItemEqSgn", "ItemFieldText", "ItemComment"}
                  \cup KindItems \cup TerminalItems

\* C27: each item the scanner returns is of a kind that may follow the
\* item returned before it: a kind item after EntryDelim, LeftDelim after a
\* kind item, after LeftDelim a CiteKey in an entry, a FieldText in a
\* preamble and a FieldType in an abbreviation, Comma after CiteKey, EqSgn
\* after FieldType, FieldText after EqSgn, Comment or EntryDelim after
\* RightDelim; EOF or Error may come instead where a handler reads up to a
\* terminator.
C27_Successors ==
    \A i \in DOMAIN toks :
        i + 1 \in DOMAIN toks => toks[i + 1].T \in Successors(TokAt(i - 1), toks[i].T)

\* C27 witness: an entry and an abbreviation were scanned to the end of
\* the input.
C27_Witness ==
    /\ \E i \in DOMAIN toks : toks[i].T = "ItemEntry"
    /\ \E i \in DOMAIN toks : toks[i].T = "ItemAbbrev"
    /\ Cardinality(RightDelimIdx) = 2
    /\ toks[Len(toks)].T = "ItemEOF"

\* the positions after p at which the input has an '@' that the reader
\* reaches: no read fails between p and it
AtSigns(p) ==
    {q \in (p + 1)..Len(input) :
        /\ input[q] = "@"
        /\ \A k \in (p + 1)..(q - 1) : input[k] \notin {"@", IOERR}}

\* a text from its first to its last character that is no white space
Min(S) == CHOOSE x \in S : \A y \in S : x <= y
Inner(text) ==
    LET solid == {i \in DOMAIN text : text[i] \notin Spaces}
    IN IF solid = {} THEN <<>> ELSE SubSeq(text, Min(solid), Max(solid))

\* the top-level text between position p and the '@' at position q, as the
\* scanner is to send it
TopLevelItems(p, q) ==
    LET text == Inner(SubSeq(input, p + 1, q - 1))
    IN IF text = <<>> THEN <<>> ELSE <<Item("ItemComment", text)>>

\* the item sent last
LastSent == LET all == toks \o items IN IF all = <<>> THEN "none" ELSE all[Len(all)].T

\* C28: the scanner reads top-level text from the start of the input or
\* from the character after a right body delimiter; up to the next '@' it
\* sends that text, trimmed, as one Comment item, or nothing when the
\* trimmed text is empty, and leaves the '@' to be read; the next item is
\* the EntryDelim for that '@'.
C28_TopLevelText ==
    /\ [](sstate \in {"null", "topLvlComment"} =>
             \/ pos = 0 /\ toks \o items = <<>>
             \/ pos \in DOMAIN input /\ input[pos] \in {"}", ")"} /\ LastSent = "ItemRightDelim")
    /\ [][/\ (sstate = "topLvlComment" /\ sstate' # sstate /\ AtSigns(pos) # {}) =>
                \E q \in AtSigns(pos) :
                    /\ sstate' = "entryDelim"
                    /\ pos' = q - 1
                    /\ items' = TopLevelItems(pos, q)
          /\ (sstate = "entryDelim" /\ sstate' # sstate) =>
                /\ sstate' = "entryType"
                /\ pos' = pos + 1
                /\ items' = <<Item("ItemEntryDelim", <<"@">>)>>]_vars

\* C28 witness: text before the first declaration and text between two
\* declarations were each returned as one Comment item before an EntryDelim.
C28_Witness ==
    /\ Len(toks) >= 2 /\ toks[1] = Item("ItemComment", <<"%"," ","c">>)
    /\ toks[2].T = "ItemEntryDelim"
    /\ \E i \in DOMAIN toks :
          /\ i + 2 \in DOMAIN toks
          /\ toks[i].T = "ItemRightDelim"
          /\ toks[i + 1] = Item("ItemComment", <<"%"," ","d">>)
          /\ toks[i + 2].T = "ItemEntryDelim"

\* a list of comment texts as Comment items
CommentItems(cs) == [i \in DOMAIN cs |-> Item("ItemComment", cs[i])]

\* the items of the fields of construct d from the i-th on.  A comma
\* written after the comment of its field is passed over with the white
\* space after that comment and gives no Comma item.
RECURSIVE FieldItems(_, _, _)
FieldItems(d, i, withComments) ==
    IF i > Len(d.fields) THEN <<>>
    ELSE LET f == d.fields[i]
             cs == CommentLines(f.cm)
         IN <<Item("ItemFieldType", f.k), Item("ItemEqSgn", <<"=">>), Item("ItemFieldText", f.v)>>
            \o (IF i < Len(d.fields) /\ ~(d.late /\ cs # <<>>)
                THEN <<Item("ItemComma", <<",">>)>> ELSE <<>>)
            \o (IF withComments THEN CommentItems(cs) ELSE <<>>)
            \o FieldItems(d, i + 1, withComments)

\* the items of an entry written as construct d, with or without the
\* comments written inside its body
EntryItems(d, withComments) ==
    (IF d.pre = NoText THEN <<>> ELSE <<Item("ItemComment", d.pre)>>)
    \o <<Item("ItemEntryDelim", <<"@">>), Item("ItemEntry", d.name),
         Item("ItemLeftDelim", <<d.open>>), Item("ItemCiteKey", d.key),
         Item("ItemComma", <<",">>)>>
    \o (IF withComments THEN CommentItems(CommentLines(d.cm0)) ELSE <<>>)
    \o FieldItems(d, 1, withComments)
    \o <<Item("ItemRightDelim", d.close)>>

\* the first construct is an entry written correctly, its values among
\* those the scanner sends as written
PlainEntry ==
    /\ src # <<>> /\ src[1].kind = "entry" /\ Closed(src[1]) /\ KeyOk(src[1])
    /\ src[1].name \notin BadNames
    /\ \A j \in DOMAIN src[1].fields : src[1].fields[j].v \in ScannedValues

\* the items returned so far, those after the n-th left out
FirstToks(n) == SubSeq(toks, 1, IF Len(toks) < n THEN Len(toks) ELSE n)

\* the items that are no Comment of the first n of sequence s
Uncommented(s, n) ==
    SelectSeq(SubSeq(s, 1, IF Len(s) < n THEN Len(s) ELSE n),
              LAMBDA t : t.T # "ItemComment")

BraceValues == {vBrace, vNest, vBraceSpecial}

\* the j-th value of the first construct is v, in a construct with no fault
\* before that value
ValueAt(j, v) ==
    /\ src # <<>> /\ src[1].kind # "raw"
    /\ j <= Len(src[1].fields) /\ src[1].fields[j].v = v /\ Terminated(src[1], j)
    /\ KeyOk(src[1]) /\ src[1].name \notin BadNames
    /\ \A i \in 1..(j - 1) : src[1].fields[i].v \in ScannedValues

\* the item returned where the j-th value of the first construct is due, if
\* one was returned
DueItem(j) ==
    IF ValueDue(src[1], j) # 0 /\ ValueDue(src[1], j) < Len(toks)
    THEN toks[ValueDue(src[1], j) + 1] ELSE Item("none", <<>>)

C31_CommaParity ==
    /\ \A i \in DOMAIN toks :
          (toks[i].T = "ItemFieldText" /\ TokAt(i + 1) = "ItemComma")
              => QuotesByPrev(toks[i].Val) % 2 = 0
    /\ \A j \in 1..MaxFields + 1 : \A v \in {vQComma, vEsc} :
          ValueAt(j, v) => DueItem(j) \in {Item("none", <<>>), Item("ItemFieldText", v)}
    /\ \A i \in DOMAIN toks :
          toks[i].T = "ItemComma" => TokAt(i - 1) \in {"ItemCiteKey", "ItemFieldText"}

\* C31 witness: the value with a comma between its quotes was sent whole,
\* followed by the Comma item of the separator after it.
C31_Witness ==
    /\ ValueAt(1, vQComma)
    /\ \E i \in DOMAIN toks :
          /\ i + 1 \in DOMAIN toks
          /\ toks[i] = Item("ItemFieldText", vQComma) /\ toks[i + 1] = Item("ItemComma", <<",">>)

\* the characters of a NAME: letters, digits and the NAME punctuation
NameAlphabet ==
    Range(LowerCase) \cup Range(UpperCase) \cup Digits
    \cup {"_","-","/","!","?","$","&","*","+",".",":",";","<",">","[","]","^",BACKTICK,"|"}

NamedItems == KindItems \cup {"ItemCiteKey", "ItemFieldType"}

\* the first construct is an entry with a type name that is a NAME and a
\* cite key that is none
BadKeyed ==
    /\ src # <<>> /\ src[1].kind = "entry"
    /\ src[1].name \notin BadNames /\ ~KeyOk(src[1])

\* C32: every Entry, Abbrev, Preamble, CiteKey and FieldType item holds a
\* text that is not empty and is made of NAME characters only; where the
\* type name or the cite key written is no NAME, the item returned in its
\* place is an Error item and the scanner is in its error state from then
\* on.
C32_NamesValid ==
    /\ \A i \in DOMAIN toks :
          toks[i].T \in NamedItems
              => /\ toks[i].Val # <<>>
                 /\ \A k \in DOMAIN toks[i].Val : toks[i].Val[k] \in NameAlphabet
    /\ BadKeyed =>
          LET n == NthIdx("ItemLeftDelim", 1)
          IN (n # 0 /\ n + 1 \in DOMAIN toks)
                 => toks[n + 1].T = "ItemErr" /\ sstate = "err"
    /\ (src # <<>> /\ src[1].kind = "entry" /\ src[1].name \in BadNames)
          => \A i \in DOMAIN toks : toks[i].T \notin NamedItems

\* C32 witness: a cite key with a space inside was refused: the item after
\* the opening delimiter is an Error item.
C32_Witness ==
    /\ BadKeyed /\ src[1].key = <<"k"," ","k">>
    /\ LET n == NthIdx("ItemLeftDelim", 1)
       IN n # 0 /\ n + 1 \in DOMAIN toks /\ toks[n + 1].T = "ItemErr"
    /\ sstate = "err"

\* C33: the items channel and the nodes channel never hold more than one
\* element, which is below their capacity, so no send finds its channel
\* full; a channel changes only by one element sent into the empty channel
\* or by its first element handed to the caller of Next, which keeps the
\* order of sending; a handler of the scanner takes a step only while the
\* items channel is empty and a handler of the parser only while the nodes
\* channel is empty and open.
C33_HandOff ==
    /\ [](/\ Len(items) <= 1 /\ Len(items) < ChanCap
          /\ Len(nodes) <= 1 /\ Len(nodes) < ChanCap)
    /\ [][items' # items =>
            IF items = <<>> THEN Len(items') = 1
            ELSE items' = Tail(items) /\ toks' = Append(toks, Head(items))]_vars
    /\ [][nodes' # nodes =>
            IF nodes = <<>> THEN Len(nodes') = 1
            ELSE /\ nodes' = Tail(nodes)
                 /\ results' = Append(results, [node |-> Head(nodes), ok |-> TRUE])]_vars
    /\ [][(sstate' # sstate \/ pos' # pos \/ unread' # unread) => items = <<>>]_vars
    /\ [][(pstate' # pstate \/ ppc' # ppc \/ currDecl' # currDecl \/ closed' # closed)
            => nodes = <<>> /\ closed = 0]_vars

\* C33 witness: a second declaration waits in the nodes channel after the
\* first was handed to the consumer, and the items channel is empty.
C33_Witness ==
    /\ Len(nodes) = 1 /\ items = <<>>
    /\ Len(results) = 1 /\ results[1].ok
    /\ Len(toks) > 6

\* a step of a handler of the scanner: the default case of Scanner.Next
HandlerStep == ctl = "snext" /\ items = <<>> /\ sstate # "stub"

\* the characters read so far: those consumed and those pushed back
Reads == pos + unread.done

SinkStates == {"eof", "err"}

\* what is left to do: the characters not consumed yet, and the handlers
\* that may leave the reader where they found it
Remaining ==
    3 * (Len(input) - pos)
    + (CASE sstate = "null" -> 2
         [] sstate \in {"topLvlComment", "entryTypeOrBrace"} -> 1
         [] OTHER -> 0)

\* C34 as claimed: every step of a handler of the scanner reads at least
\* one character or enters a sink.
C34_EachHandlerReads ==
    [][HandlerStep => (Reads' > Reads \/ sstate' \in SinkStates)]_vars

\* C34 amended: every handler of the scanner but null reads at least one
\* character or enters a sink, null reads nothing and names topLvlComment,
\* and no handler leaves the reader before the place where it found it;
\* every step of a handler outside the sinks enters a sink or lowers
\* Remaining, so no chain of handlers and pushbacks reads one character for
\* ever; every call of Parser.Next and of Scanner.Next returns, and the
\* parser reaches its eof or err state.
C34_Progress ==
    /\ [][HandlerStep =>
            /\ pos' >= pos
            /\ IF sstate = "null"
               THEN sstate' = "topLvlComment" /\ Reads' = Reads
               ELSE Reads' > Reads \/ sstate' \in SinkStates]_vars
    /\ [][(HandlerStep /\ sstate \notin SinkStates)
            => (sstate' \in SinkStates \/ Remaining' < Remaining)]_vars
    /\ (ctl # "idle") ~> (ctl = "idle")
    /\ (ctl = "snext") ~> (ctl # "snext")
    /\ <>(pstate \in {"eof", "err"})

\* C34 witness: after two entries were read to their end the scanner has
\* pushed back as many characters as it read twice, the input is used up
\* and the parser is in its eof state with the consumer idle.
C34_Witness ==
    /\ Len(src) = 2 /\ Len(results) >= 3
    /\ pos = Len(input) /\ unread.done > 4
    /\ pstate = "eof" /\ sstate = "eof" /\ ctl = "idle"

----------------------------------------------------------------------------
(* Top-level text at the end of the input.                                  *)

\* The input after position p.
TailText(p) == SubSeq(input, p + 1, Len(input))

\* A Comment item the scanner sent from the top level: the first item, or
\* the one after a right body delimiter.
TopLevelComments ==
    {i \in DOMAIN toks : toks[i].T = "ItemComment" /\ TokAt(i - 1) \in {"none", "ItemRightDelim"}}

\* C35: top-level text that is followed by the end of the input instead of
\* an '@' is never sent as a Comment item: topLvlComment sends nothing and
\* goes to state eof with the whole input read, every Comment item of the
\* top level is followed by an EntryDelim item, and once the parser is in
\* state eof it returns no further node, so that the group p.comments points
\* to, which no returned declaration holds, stays unreturned.
C35_TrailingText ==
    /\ [](/\ \A i \in TopLevelComments : TokAt(i + 1) \in {"none", "ItemEntryDelim"}
          /\ pstate \in {"eof", "err"} =>
                /\ heap.cur \notin Range(heap.given)
                /\ \A i \in DOMAIN results :
                      results[i].ok => results[i].node.type \in {"EntryDecl", "AbbrevDecl", "PreambleDecl"})
    /\ [][(/\ ctl = "snext" /\ items = <<>> /\ sstate = "topLvlComment"
           /\ \A k \in DOMAIN TailText(pos) : TailText(pos)[k] \notin {"@", IOERR})
              => /\ sstate' = "eof"
                 /\ pos' = Len(input)
                 /\ items' = <<>>]_vars
    /\ [][(pstate = "eof" /\ nodes = <<>>)
              => /\ pstate' = "eof" /\ nodes' = <<>> /\ heap' = heap
                 /\ results' # results
                        => results' = Append(results, [node |-> NilNode, ok |-> FALSE])]_vars

\* C35 witness: a declaration was returned, the text after it was read to
\* the end of the input and reached the parser neither as an item nor as a
\* node, and the consumer was told that the stream has ended.
C35_Witness ==
    /\ Len(src) = 2 /\ src[1].kind = "entry" /\ src[2] = Raw(<<"t">>)
    /\ sstate = "eof" /\ pstate = "eof" /\ ctl = "idle" /\ pos = Len(input)
    /\ Len(results) = 2 /\ results[1].ok /\ ~results[2].ok
    /\ toks[Len(toks)].T = "ItemEOF" /\ TokAt(Len(toks) - 1) = "ItemRightDelim"
    /\ \A i \in DOMAIN toks : toks[i].Val # <<"t">>
    /\ pending(heap) = <<>>

----------------------------------------------------------------------------
(* Abbreviations and preambles returned with the real scanner.              *)

\* The index of the item that named the declaration item i belongs to.
DeclOf(i) ==
    LET heads == {j \in 1..i : toks[j].T \in {"ItemEntry", "ItemAbbrev", "ItemPreamble"}}
    IN IF heads = {} THEN 0 ELSE CHOOSE j \in heads : \A k \in heads : k <= j

\* C36: with the real scanner, every AbbrevDecl the parser returns has a
\* Field that is not nil, with a key and a value that are not empty, and
\* every PreambleDecl it returns has a Value that is not empty: in the body
\* of an abbreviation or of a preamble the scanner sends no RightDelim item
\* before a FieldText item, and the text of that item is not empty.
C36_DeclsComplete ==
    /\ \A n \in Range(Emitted) :
          /\ n.type = "AbbrevDecl" =>
                (n.Field # <<>> /\ n.Field[1].Key # <<>> /\ n.Field[1].Value # <<>>)
          /\ n.type = "PreambleDecl" => n.Value # <<>>
    /\ \A i \in DOMAIN toks :
          (toks[i].T = "ItemRightDelim" /\ TokAt(DeclOf(i)) \in {"ItemAbbrev", "ItemPreamble"})
              => \E k \in (DeclOf(i) + 1)..(i - 1) :
                    toks[k].T = "ItemFieldText" /\ toks[k].Val # <<>>

\* C36 witness: an abbreviation and a preamble were both returned to the
\* consumer, each after its field text and right delimiter.
C36_Witness ==
    /\ \E i, j \in DOMAIN results :
          /\ results[i].ok /\ results[i].node.type = "AbbrevDecl"
          /\ results[i].node.Field # <<>>
          /\ results[j].ok /\ results[j].node.type = "PreambleDecl"
    /\ Cardinality({i \in DOMAIN toks : toks[i].T = "ItemRightDelim"}) = 2
    /\ pstate = "eof" /\ ctl = "idle"

----------------------------------------------------------------------------
(* parse: Node.Eq.                                                          *)

\* A Go slice: nil, or a backing array with its elements.
NilSlice == [isnil |-> TRUE, at |-> <<>>]
SliceOf(elems) == [isnil |-> FALSE, at |-> elems]

\* reflect.DeepEqual on two slices of pointers: both nil or both not nil,
\* and the elements pointed to equal one by one.
DeepEqual(x, y) == x.isnil = y.isnil /\ x.at = y.at

\* CommentGroupExpr.Eq, on two groups that are not nil
CommentGroupExprEq(c, d) == DeepEqual(c.Values, d.Values)

\* FieldStmt.Eq, on two statements that are not nil
FieldStmtEq(f, d) == ~(f.Key # d.Key) /\ ~(f.Value # d.Value)

\* EntryDecl.Eq
EntryDeclEq(e, n) ==
    /\ n.type = "EntryDecl"
    /\ ~(e.Name # n.Name)
    /\ ~(e.CiteKey # n.CiteKey)
    /\ CommentGroupExprEq(e.Comments, n.Comments)
    /\ DeepEqual(e.Fields, n.Fields)

\* AbbrevDecl.Eq
AbbrevDeclEq(a, n) ==
    /\ n.type = "AbbrevDecl"
    /\ FieldStmtEq(a.Field[1], n.Field[1])

\* PreambleDecl.Eq
PreambleDeclEq(p, n) ==
    /\ n.type = "PreambleDecl"
    /\ ~(p.Value # n.Value)
    /\ CommentGroupExprEq(p.Comments, n.Comments)

\* a.Eq(b), dispatched on the variant of a
NodeEq(a, b) ==
    CASE a.type = "EntryDecl" -> EntryDeclEq(a, b)
      [] a.type = "AbbrevDecl" -> AbbrevDeclEq(a, b)
      [] a.type = "PreambleDecl" -> PreambleDeclEq(a, b)

\* comment groups and field lists to compare; none of the pointers is nil
EqGroups ==
    {[Values |-> s] : s \in {NilSlice, SliceOf(<<>>), SliceOf(<<cText>>),
                             SliceOf(<<cText, <<"d">>>>), SliceOf(<<<<"d">>, cText>>)}}
EqStmts == {FieldStmt(<<"f">>, vInt), FieldStmt(<<"f">>, vQuote), FieldStmt(<<"g">>, vInt)}
EqFields ==
    {NilSlice, SliceOf(<<>>), SliceOf(<<FieldStmt(<<"f">>, vInt)>>),
     SliceOf(<<FieldStmt(<<"f">>, vInt), FieldStmt(<<"g">>, vInt)>>),
     SliceOf(<<FieldStmt(<<"g">>, vInt), FieldStmt(<<"f">>, vInt)>>)}

\* the declarations to compare
EqNodes ==
    {EntryDecl(<<"a">>, <<"k">>, g, fs) : g \in EqGroups, fs \in EqFields}
    \cup {EntryDecl(n, k, [Values |-> NilSlice], NilSlice) : n \in {<<"a">>, <<"b">>}, k \in {<<"k">>, <<"j">>}}
    \cup {AbbrevDecl(g, <<f>>) : g \in EqGroups, f \in EqStmts}
    \cup {PreambleDecl(g, v) : g \in EqGroups, v \in {vQuote, vBrace}}

\* No parser runs; the consumer holds two declarations a and b.
InitEq ==
    /\ src = <<>>
    /\ input = <<>>
    /\ pos = NewPipeline.pos
    /\ unread = NewPipeline.unread
    /\ sstate = NewPipeline.sstate
    /\ bracers = NewPipeline.bracers
    /\ entryT = NewPipeline.entryT
    /\ delim = NewPipeline.delim
    /\ items = NewPipeline.items
    /\ pstate = NewPipeline.pstate
    /\ ppc = NewPipeline.ppc
    /\ comments = NewPipeline.comments
    /\ heap = NewPipeline.heap
    /\ currDecl = NewPipeline.currDecl
    /\ stmt = NewPipeline.stmt
    /\ nodes = NewPipeline.nodes
    /\ closed = NewPipeline.closed
    /\ ctl = "idle"
    /\ toks = NewPipeline.toks
    /\ results = NewPipeline.results
    /\ other \in [a : EqNodes, b : EqNodes]

\* The consumer evaluates a.Eq(b) and b.Eq(a).
CompareNodes ==
    /\ ctl = "idle"
    /\ results = <<>>
    /\ results' = <<[ab |-> NodeEq(other.a, other.b), ba |-> NodeEq(other.b, other.a)]>>
    /\ ctl' = "done"
    /\ UNCHANGED <<src, input, other, scanVars, pstate, ppc, comments, heap, currDecl, stmt, nodes,
                   closed, toks>>

SpecEq == InitEq /\ [][CompareNodes]_vars

\* The elements of a slice, nil or not.
Elems(s) == s.at

\* Two declarations of the same variant with equal payloads: type name, cite
\* key, ordered fields, value and ordered comment group.
SamePayload(a, b) ==
    /\ a.type = b.type
    /\ Elems(a.Comments.Values) = Elems(b.Comments.Values)
    /\ CASE a.type = "EntryDecl" ->
                a.Name = b.Name /\ a.CiteKey = b.CiteKey /\ Elems(a.Fields) = Elems(b.Fields)
         [] a.type = "AbbrevDecl" -> a.Field = b.Field
         [] a.type = "PreambleDecl" -> a.Value = b.Value

\* C37: for two declarations a and b, a.Eq(b) holds exactly when they are
\* of the same variant and all their payload components are equal, the
\* ordered comment group included; Eq is reflexive, symmetric and transitive.
C37_NodeEq ==
    /\ results # <<>> => /\ results[1].ab <=> SamePayload(other.a, other.b)
                         /\ results[1].ab <=> results[1].ba
    /\ \A a \in EqNodes : NodeEq(a, a)
    /\ ctl = "done" => \A c \in EqNodes :
                           (results[1].ab /\ NodeEq(other.b, c)) => NodeEq(other.a, c)

----------------------------------------------------------------------------
(* The legacy lexer (lexer.go), over the reader of the same package.        *)

\* isContinuous: not empty and without white space
isContinuous(s) == s # <<>> /\ \A i \in DOMAIN s : ~IsSpaceRune(s[i])

\* isLetter: not empty and letters only
isLetter(s) == s # <<>> /\ \A i \in DOMAIN s : IsLetterRune(s[i])

\* isValidCiteKey
isValidCiteKey(s) ==
    s # <<>> /\ \A i \in DOMAIN s :
                  ~(~IsLetterRune(s[i]) /\ ~IsDigitRune(s[i]) /\ s[i] # ":" /\ s[i] # "-" /\ s[i] # "_")

\* the loop of the lexer's isProperQuoted
RECURSIVE legacyQuotedLoop(_, _, _, _)
legacyQuotedLoop(s, i, braces, quotes) ==
    IF i > Len(s)
    THEN ~(braces # 0 \/ quotes % 2 # 0)
    ELSE CASE s[i] = "{" -> legacyQuotedLoop(s, i + 1, braces + 1, quotes)
           [] s[i] = "}" /\ braces > 0 -> legacyQuotedLoop(s, i + 1, braces - 1, quotes)
           [] s[i] = "\"" -> legacyQuotedLoop(s, i + 1, braces, quotes + 1)
           [] OTHER -> legacyQuotedLoop(s, i + 1, braces, quotes)

\* the lexer's isProperQuoted
isProperQuotedLegacy(s) ==
    /\ s # <<>>
    /\ ~(s[1] # "\"" /\ s[1] # "{")
    /\ ~(s[Len(s)] # "\"" /\ s[Len(s)] # "}")
    /\ legacyQuotedLoop(s, 1, 0, 0)

\* the lexer's test of a field text
legacyTextOk(b) == ~(~isValidInt(b) /\ ~isProperQuotedLegacy(b))

LexerStates ==
    {"null", "entryDelim", "entryType", "entryLeftBrace", "entryCiteKey", "entryComma",
     "entryFieldType", "entryRightBrace", "entryEqSgn", "entryFieldText", "entryTypeOrBrace",
     "eof", "err"}

\* The fields of a lexer next to its reader, state, items and bracers: the
\* inEntry flag, and as history the flag as each guarded read of
\* entryLeftBrace ("lb") and entryRightBrace ("rb") found it, and the guards
\* that returned err.
NewLexer == [inEntry |-> FALSE, seen |-> {}, fired |-> {}]

\* What a handler of the lexer leaves behind.
LexRet(st, p, out, br, lx) == [state |-> st, pos |-> p, out |-> out, bracers |-> br, lexer |-> lx]

\* the two tests every handler makes after a read
lexerCheck(char) == IF char.t = charErr THEN "err" ELSE IF char.t = charEOF THEN "eof" ELSE "null"

RECURSIVE lexerEntryDelim(_)
lexerEntryDelim(p) ==
    LET char == ReaderNext(p) IN
    IF lexerCheck(char) # "null" THEN LexRet(lexerCheck(char), char.pos, <<>>, bracers, other)
    ELSE IF char.val = "@"
    THEN LexRet("entryType", char.pos, <<Item("itmEntryDelim", <<"@">>)>>, bracers, other)
    ELSE lexerEntryDelim(char.pos)

RECURSIVE lexerEntryType(_, _)
lexerEntryType(p, buf) ==
    LET char == ReaderNext(p) IN
    IF lexerCheck(char) # "null" THEN LexRet(lexerCheck(char), char.pos, <<>>, bracers, other)
    ELSE IF char.val = "{"
    THEN IF ~isContinuous(TrimSpace(buf)) \/ ~isLetter(TrimSpace(buf))
         THEN LexRet("err", char.pos, <<>>, bracers, other)
         ELSE LexRet("entryLeftBrace", ReaderRevert(char.pos),
                     <<Item("itmEntryType", TrimSpace(buf))>>, bracers, other)
    ELSE lexerEntryType(char.pos, buf \o <<char.val>>)

\* A left brace that does not set the flag.
RECURSIVE lexerEntryLeftBraceNoFlag(_, _)
lexerEntryLeftBraceNoFlag(p, lx) ==
    LET char == ReaderNext(p)
        sn == [lx EXCEPT !.seen = @ \cup {<<"lb", lx.inEntry>>}]
    IN
    IF lexerCheck(char) # "null" THEN LexRet(lexerCheck(char), char.pos, <<>>, bracers, lx)
    ELSE IF lx.inEntry
    THEN LexRet("err", char.pos, <<>>, bracers, [sn EXCEPT !.fired = @ \cup {"nested"}])
    ELSE IF char.val = "{"
    THEN LexRet("entryCiteKey", char.pos, <<Item("itmLeftBrace", <<"{">>)>>, bracers + 1, sn)
    ELSE lexerEntryLeftBraceNoFlag(char.pos, sn)

RECURSIVE lexerEntryLeftBrace(_, _)
lexerEntryLeftBrace(p, lx) ==
    LET char == ReaderNext(p)
        sn == [lx EXCEPT !.seen = @ \cup {<<"lb", lx.inEntry>>}]
    IN
    IF lexerCheck(char) # "null" THEN LexRet(lexerCheck(char), char.pos, <<>>, bracers, lx)
    ELSE IF lx.inEntry
    THEN LexRet("err", char.pos, <<>>, bracers, [sn EXCEPT !.fired = @ \cup {"nested"}])
    ELSE IF char.val = "{"
    THEN LexRet("entryCiteKey", char.pos, <<Item("itmLeftBrace", <<"{">>)>>, bracers + 1,
                [sn EXCEPT !.inEntry = TRUE])
    ELSE lexerEntryLeftBrace(char.pos, sn)

RECURSIVE lexerEntryRightBrace(_, _)
lexerEntryRightBrace(p, lx) ==
    LET char == ReaderNext(p)
        sn == [lx EXCEPT !.seen = @ \cup {<<"rb", lx.inEntry>>}]
    IN
    IF lexerCheck(char) # "null" THEN LexRet(lexerCheck(char), char.pos, <<>>, bracers, lx)
    ELSE IF ~lx.inEntry
    THEN LexRet("err", char.pos, <<>>, bracers, [sn EXCEPT !.fired = @ \cup {"noentry"}])
    ELSE IF char.val = "}"
    THEN LexRet("entryDelim", char.pos, <<Item("itmRightBrace", <<"}">>)>>, bracers - 1,
                [sn EXCEPT !.inEntry = FALSE])
    ELSE lexerEntryRightBrace(char.pos, sn)

RECURSIVE lexerCiteKey(_, _)
lexerCiteKey(p, buf) ==
    LET char == ReaderNext(p) IN
    IF lexerCheck(char) # "null" THEN LexRet(lexerCheck(char), char.pos, <<>>, bracers, other)
    ELSE IF char.val = ","
    THEN IF ~isValidCiteKey(TrimSpace(buf))
         THEN LexRet("err", char.pos, <<>>, bracers, other)
         ELSE LexRet("entryComma", ReaderRevert(char.pos),
                     <<Item("itmCiteKey", TrimSpace(buf))>>, bracers, other)
    ELSE lexerCiteKey(char.pos, buf \o <<char.val>>)

RECURSIVE lexerEntryComma(_)
lexerEntryComma(p) ==
    LET char == ReaderNext(p) IN
    IF lexerCheck(char) # "null" THEN LexRet(lexerCheck(char), char.pos, <<>>, bracers, other)
    ELSE IF char.val = ","
    THEN LexRet("entryTypeOrBrace", char.pos, <<Item("itmComma", <<",">>)>>, bracers, other)
    ELSE lexerEntryComma(char.pos)

RECURSIVE lexerEntryTypeOrBrace(_)
lexerEntryTypeOrBrace(p) ==
    LET char == ReaderNext(p) IN
    IF lexerCheck(char) # "null" THEN LexRet(lexerCheck(char), char.pos, <<>>, bracers, other)
    ELSE IF char.val = "}"
    THEN LexRet("entryRightBrace", ReaderRevert(char.pos), <<>>, bracers, other)
    ELSE IF ~IsSpaceRune(char.val)
    THEN LexRet("entryFieldType", ReaderRevert(char.pos), <<>>, bracers, other)
    ELSE lexerEntryTypeOrBrace(char.pos)

RECURSIVE lexerEntryFieldType(_, _)
lexerEntryFieldType(p, buf) ==
    LET char == ReaderNext(p) IN
    IF lexerCheck(char) # "null" THEN LexRet(lexerCheck(char), char.pos, <<>>, bracers, other)
    ELSE IF char.val = "="
    THEN IF ~isContinuous(TrimSpace(buf)) \/ ~isLetter(TrimSpace(buf))
         THEN LexRet("err", char.pos, <<>>, bracers, other)
         ELSE LexRet("entryEqSgn", ReaderRevert(char.pos),
                     <<Item("itmFieldType", TrimSpace(buf))>>, bracers, other)
    ELSE lexerEntryFieldType(char.pos, buf \o <<char.val>>)

RECURSIVE lexerEntryEqSgn(_)
lexerEntryEqSgn(p) ==
    LET char == ReaderNext(p) IN
    IF lexerCheck(char) # "null" THEN LexRet(lexerCheck(char), char.pos, <<>>, bracers, other)
    ELSE IF char.val = "="
    THEN LexRet("entryFieldText", char.pos, <<Item("itmEqSgn", <<"=">>)>>, bracers, other)
    ELSE lexerEntryEqSgn(char.pos)

RECURSIVE lexerEntryFieldText(_, _, _, _)
lexerEntryFieldText(p, buf, quotes, br) ==
    LET char == ReaderNext(p)
        c == char.val
    IN
    IF lexerCheck(char) # "null" THEN LexRet(lexerCheck(char), char.pos, <<>>, br, other)
    ELSE CASE c = "{" -> lexerEntryFieldText(char.pos, buf \o <<c>>, quotes, br + 1)
           [] c = "\"" -> lexerEntryFieldText(char.pos, buf \o <<c>>, quotes + 1, br)
           [] c = "}" /\ br = 1 ->
                IF ~legacyTextOk(TrimSpace(buf))
                THEN LexRet("err", char.pos, <<>>, br, other)
                ELSE LexRet("entryRightBrace", ReaderRevert(char.pos),
                            <<Item("itmFieldText", TrimSpace(buf))>>, br, other)
           [] c = "}" /\ br # 1 /\ br > 0 ->
                lexerEntryFieldText(char.pos, buf \o <<c>>, quotes, br - 1)
           [] c = "," /\ quotes % 2 = 0 /\ br = 1 ->
                IF ~legacyTextOk(TrimSpace(buf))
                THEN LexRet("err", char.pos, <<>>, br, other)
                ELSE LexRet("entryComma", ReaderRevert(char.pos),
                            <<Item("itmFieldText", TrimSpace(buf))>>, br, other)
           [] OTHER -> lexerEntryFieldText(char.pos, buf \o <<c>>, quotes, br)

\* The handler table of newLexer: the outcome of running the handler of
\* state st on the current lexer.
RunLexer(st) ==
    CASE st = "null" -> LexRet("entryDelim", ThisReader, <<>>, bracers, other)
      [] st = "entryDelim" -> lexerEntryDelim(ThisReader)
      [] st = "entryType" -> lexerEntryType(ThisReader, <<>>)
      [] st = "entryLeftBrace" -> lexerEntryLeftBrace(ThisReader, other)
      [] st = "entryRightBrace" -> lexerEntryRightBrace(ThisReader, other)
      [] st = "entryCiteKey" -> lexerCiteKey(ThisReader, <<>>)
      [] st = "entryComma" -> lexerEntryComma(ThisReader)
      [] st = "entryFieldType" -> lexerEntryFieldType(ThisReader, <<>>)
      [] st = "entryEqSgn" -> lexerEntryEqSgn(ThisReader)
      [] st = "entryFieldText" -> lexerEntryFieldText(ThisReader, <<>>, 0, bracers)
      [] st = "entryTypeOrBrace" -> lexerEntryTypeOrBrace(ThisReader)
      [] st = "eof" -> LexRet("eof", ThisReader, <<Item("itmEOF", <<>>)>>, bracers, other)
      [] st = "err" -> LexRet("err", ThisReader, <<Item("itmErr", <<>>)>>, bracers, other)

\* The items EOF and Error the consumer has had from the lexer.
NumTerminalItms == Cardinality({i \in DOMAIN toks : toks[i].T \in {"itmEOF", "itmErr"}})

\* The consumer calls lexer.item.
LexerItemCall ==
    /\ ctl = "idle"
    /\ NumTerminalItms < MaxExtraCalls
    /\ ctl' = "lnext"
    /\ UNCHANGED <<src, input, other, scanVars, parseVars, toks>>

\* lexer.item, receive case: i := <-l.items.
LexerItemReturn ==
    /\ ctl = "lnext"
    /\ items # <<>>
    /\ toks' = Append(toks, Head(items))
    /\ items' = Tail(items)
    /\ ctl' = "idle"
    /\ UNCHANGED <<src, input, other, pos, unread, sstate, bracers, entryT, delim, parseVars>>

\* lexer.item, default case: the handler of the current state runs.
LexerStep ==
    /\ ctl = "lnext"
    /\ items = <<>>
    /\ sstate \in LexerStates
    /\ LET r == RunLexer(sstate) IN
        /\ sstate' = r.state
        /\ pos' = r.pos.at
        /\ unread' = [last |-> r.pos.last, done |-> r.pos.done, failed |-> r.pos.failed]
        /\ bracers' = r.bracers
        /\ items' = items \o r.out
        /\ other' = r.lexer
    /\ UNCHANGED <<src, input, entryT, delim, ctl, toks, parseVars>>

\* texts for the lexer: braces where no entry expects them
LexTexts ==
    { <<"@","a","{","k",","," ","f"," ","="," ","{","A","}",","," ","@","b","{","j",","," ","g"," ","="," ","2","}","}">>,
      <<"}"," ","@","a","{","k",","," ","f"," ","="," ","1","}">>,
      <<"@","a","{","{","k",","," ","f"," ","="," ","1","}","}">>,
      <<"@","a","{","k",","," ","f"," ","="," ","1","}","}">>,
      <<"@","a","{","k",",","}">>,
      <<"@","a","{","k",","," ","f"," ","="," ","1",",","}">>,
      <<"@","a","{","k",","," ","f"," ","="," ","{","{","A","}","}">>,
      <<"@","a","{","k",","," ","f"," ","="," ","\"","{","\"","}","}">>,
      <<"@","a","{","k",","," ","f"," ","="," ","{","A","}","{","B","}","}">>,
      <<"@","a","{","k",","," ","f"," ","="," ","{","A","}",","," ","g"," ","="," ","{","B","{","C","}","}","}">>,
      <<"@","a"," ","b","{","k",","," ","f"," ","="," ","1","}">>,
      <<"@","a","{","k"," ","k",","," ","f"," ","="," ","1","}">>,
      <<"@","a","{","k",","," ","f"," ","="," ","x","}">> }

\* what follows the first text
LexFollowers ==
    { <<"@","b","{","j",","," ","g"," ","="," ","2","}">>,
      <<"}">>,
      <<"@","c","{","i",","," ","h"," ","="," ","{","{","D","}","}",","," ","@","d","{">> }

\* the inputs of the lexer
LexSources ==
    {<<>>} \cup {<<d>> : d \in EntriesByValue}
    \cup {<<Raw(x)>> \o t : x \in LexTexts, t \in SeqsUpTo({Raw(y) : y \in LexFollowers}, MaxDecls - 1)}

InitLex ==
    /\ src \in LexSources
    /\ input = RenderAll(src)
    /\ pos = NewPipeline.pos
    /\ unread = NewPipeline.unread
    /\ sstate = "null"
    /\ bracers = 0
    /\ entryT = NewPipeline.entryT
    /\ delim = NewPipeline.delim
    /\ items = <<>>
    /\ pstate = NewPipeline.pstate
    /\ ppc = NewPipeline.ppc
    /\ comments = NewPipeline.comments
    /\ heap = NewPipeline.heap
    /\ currDecl = NewPipeline.currDecl
    /\ stmt = NewPipeline.stmt
    /\ nodes = NewPipeline.nodes
    /\ closed = NewPipeline.closed
    /\ ctl = "idle"
    /\ toks = <<>>
    /\ results = NewPipeline.results
    /\ other = NewLexer

NextLex == LexerItemCall \/ LexerItemReturn \/ LexerStep

SpecLex == InitLex /\ [][NextLex]_vars

\* C38: in the legacy lexer the inEntry flag is false every time
\* entryLeftBrace reads a character and true every time entryRightBrace
\* reads one, so that neither the guard against nested entries nor the
\* guard against a missing entry ever returns err; after each itmRightBrace
\* the flag is false and the brace counter 0.
C38_InEntryFlag ==
    /\ [](/\ other.seen \subseteq {<<"lb", FALSE>>, <<"rb", TRUE>>}
          /\ other.fired = {}
          /\ sstate \in {"null", "entryDelim", "entryType", "entryLeftBrace"}
                => (~other.inEntry /\ bracers = 0)
          /\ sstate \in {"entryCiteKey", "entryComma", "entryTypeOrBrace", "entryFieldType",
                          "entryEqSgn", "entryRightBrace"} => (other.inEntry /\ bracers = 1)
          /\ sstate = "entryFieldText" => other.inEntry)
    /\ [][(items' # <<>> /\ items = <<>> /\ items'[1].T = "itmRightBrace")
              => (~other'.inEntry /\ bracers' = 0 /\ other.inEntry /\ bracers = 1)]_vars

\* C38 witness: two entries were read to their right braces, the second
\* with a nested group in its value, and the lexer is back between entries
\* with the flag false and the counter at 0.
C38_Witness ==
    /\ Cardinality({i \in DOMAIN toks : toks[i].T = "itmRightBrace"}) = 2
    /\ \E i \in DOMAIN toks : toks[i].T = "itmFieldText" /\ "{" \in Range(toks[i].Val)
    /\ other.seen = {<<"lb", FALSE>>, <<"rb", TRUE>>}
    /\ ~other.inEntry /\ bracers = 0
    /\ toks[Len(toks)].T = "itmEOF"

====
